---- MODULE Spec2Model ----
(***************************************************************************)
(* Verification model of parts of Gardener:                                *)
(*   - the BackupEntry reconciler (gardenlet, package backupentry),        *)
(*   - the Seed lifecycle controller (controller-manager, package seed),   *)
(*   - the ShootValidator admission plugin.                                *)
(* Each part has its own specification (SpecBackupEntry, SpecSeed,         *)
(* SpecValidator); the variables of the other parts keep their initial     *)
(* values.                                                                 *)
(***************************************************************************)
EXTENDS Integers, Sequences, FiniteSets, TLC

VARIABLES
    now,            \* wall clock (time.Now / time.Since), in hours for the BackupEntry part
    be,             \* the BackupEntry object in the garden API server, or Absent
    beGraceHours,   \* config.Controllers.BackupEntry.DeletionGracePeriodHours
    beRoute,        \* the handler the last Reconcile went through: "none", "delete", "reconcile"
    beCalls,        \* the calls the last Reconcile made, in order
    beResult,       \* what the last Reconcile returned: [requeue, err]
    seed,           \* the Seed in the seed lister: [exists, conditions]
    shoots,         \* the Shoots in the order shootLister.List returns them
    seedRun,        \* the last reconcileSeedKey: lister result, writes, results, queue calls
    vOld,           \* the Shoot stored under the key garden-dev/foo, or Absent
    vOthers,        \* the other Shoots of the shoot lister
    vProjectDeleting, \* the project of garden-dev has a deletion timestamp
    vLast,          \* the last admission request and what Admit returned for it
    dDefaultDomains, \* the default domains of the garden's default-domain secrets, in list order
    dSecretsFail,   \* listing the default-domain secrets fails
    dLast,          \* the last ShootDNS admission request and what DNS.Admit returned for it
    crMap,          \* b.Shoot.ContainerRuntimesMap: name -> [type] or Absent
    crDeployed,     \* the ContainerRuntime resources of the shoot's seed namespace
    crOp,           \* the botanist function that runs: its list, tasks, deletes and result
    hcThreshold,    \* the health checker's threshold for the condition type: [set, d]
    hcCond,         \* the condition the health checker maintains: [status, lastTransitionTime]
    hPools,         \* the worker pools of the shoot: a list of [name, minimum, maximum]
    hWorkers,       \* the last operation states of the Worker resources of the shoot
    hLast,          \* the last check of the health checker: [check, input, result]
    pProject,       \* the Project in the garden API server: [exists, name, namespace, phase]
    pNamespaces,    \* the namespaces of the garden cluster: name -> absent, active, terminating
    pRun            \* the run of the project controller's reconcile

beVars == <<be, beGraceHours, beRoute, beCalls, beResult>>

seedVars == <<seed, shoots, seedRun>>

valVars == <<vOld, vOthers, vProjectDeleting, vLast>>

dnsVars == <<dDefaultDomains, dSecretsFail, dLast>>

\* the parts added after the validator
crVars == <<crMap, crDeployed, crOp>>

hcVars == <<hcThreshold, hcCond>>

chkVars == <<hPools, hWorkers, hLast>>

pjVars == <<pProject, pNamespaces, pRun>>

\* the parts added after the health checker's condition
lateVars == <<chkVars, pjVars>>

extVars == <<dnsVars, crVars, hcVars, lateVars>>

\* the parts that the checks of the health checker leave alone
oldVars == <<now, beVars, seedVars, valVars, dnsVars, crVars, hcVars>>

vars == <<now, be, beGraceHours, beRoute, beCalls, beResult, seed, shoots, seedRun,
          vOld, vOthers, vProjectDeleting, vLast, dDefaultDomains, dSecretsFail, dLast,
          crMap, crDeployed, crOp, hcThreshold, hcCond, hPools, hWorkers, hLast,
          pProject, pNamespaces, pRun>>

\* ---------------------------------------------------------------- bounds
MaxTime == 4
MaxGraceHours == 1
MaxShoots == 2

Range(seq) == {seq[i] : i \in DOMAIN seq}

\* ------------------------------------------------------------- constants
NoTime == -1
Absent == [kind |-> "Absent"]
NoOp == [kind |-> "NoOp"]
GardenerName == "gardener"
OtherFinalizer == "other"
GardenNamespace == "garden"

\* ===========================================================================
\* BackupEntry reconciler
\* ===========================================================================

\* strconv.ParseBool: the accepted spellings of true; every other string
\* (including the empty string of a missing annotation) yields false.
ParseBool(s) == s \in {"1", "t", "T", "TRUE", "true", "True"}

\* values of the annotation backupentry.core.gardener.cloud/force-deletion;
\* "" is what the map lookup returns when the annotation is missing
ForceDeletionValues == {"", "true", "false", "yes"}

\* the grace period taken as a bare time.Duration (nanoseconds): no hour elapses
computeGracePeriodNoUnit(deletionGracePeriodHours) == 0 * deletionGracePeriodHours

\* time.Hour * time.Duration(deletionGracePeriodHours), in hours
computeGracePeriod(deletionGracePeriodHours) == 1 * deletionGracePeriodHours

\* the points at which a call made by the reconciler can return an error
FailPoints == {"get", "ensureFinalizer", "statusProcessing", "seedClient", "actuator",
               "statusError", "statusSucceeded", "removeAnnotation", "removeFinalizer",
               "statusPending"}

\* the combinations of failures that lead to different runs: nothing fails, one
\* call fails (and ends the run), or the actuator fails and the status update
\* that records its error fails too
FailSets == {{}} \cup {{f} : f \in FailPoints} \cup {{"actuator", "statusError"}}

EmptyResult == [requeue |-> FALSE, err |-> "nil"]
ErrResult(e) == [requeue |-> FALSE, err |-> e]

LastOperation(state, progress) == [state |-> state, progress |-> progress]

updateBackupEntryStatusProcessing(o, progress) ==
    [o EXCEPT !.lastOperation = LastOperation("Processing", progress)]

updateBackupEntryStatusError(o) ==
    LET progress == IF o.lastOperation # NoOp THEN o.lastOperation.progress ELSE 1
    IN  [o EXCEPT !.lastOperation = LastOperation("Error", progress),
                  !.lastError = TRUE]

updateBackupEntryStatusSucceeded(o) ==
    [o EXCEPT !.lastError = FALSE,
              !.lastOperation = LastOperation("Succeeded", 100),
              !.observedGeneration = o.generation]

updateBackupEntryStatusPending(o) ==
    [o EXCEPT !.observedGeneration = o.generation,
              !.lastOperation = LastOperation("Pending", 1)]

\* outcome of a handler: the object as written to the API server, the calls
\* made and the returned (reconcile.Result, error)
Outcome(o, calls, result) == [obj |-> o, calls |-> calls, result |-> result]

reconcileBackupEntry(o, fails) ==
    IF "ensureFinalizer" \in fails
    THEN Outcome(o, <<"EnsureFinalizer">>, ErrResult("ensureFinalizer"))
    ELSE
    LET o1 == [o EXCEPT !.finalizers = o.finalizers \cup {GardenerName}]
        c1 == <<"EnsureFinalizer", "StatusProcessing">>
    IN
    IF "statusProcessing" \in fails
    THEN Outcome(o1, c1, ErrResult("statusProcessing"))
    ELSE
    LET o2 == updateBackupEntryStatusProcessing(o1, 2) IN
    IF "seedClient" \in fails
    THEN Outcome(o2, c1 \o <<"GetSeedClient">>, ErrResult("seedClient"))
    ELSE
    LET c2 == c1 \o <<"GetSeedClient", "ActuatorReconcile">> IN
    IF "actuator" \in fails
    THEN IF "statusError" \in fails
         THEN Outcome(o2, c2 \o <<"StatusError">>, ErrResult("statusError"))
         ELSE Outcome(updateBackupEntryStatusError(o2), c2 \o <<"StatusError">>,
                      ErrResult("actuator"))
    ELSE
    LET c3 == c2 \o <<"StatusSucceeded">> IN
    IF "statusSucceeded" \in fails
    THEN Outcome(o2, c3, ErrResult("statusSucceeded"))
    ELSE
    LET o3 == updateBackupEntryStatusSucceeded(o2)
        c4 == c3 \o <<"RemoveOperationAnnotation">>
    IN
    IF "removeAnnotation" \in fails
    THEN Outcome(o3, c4, ErrResult("removeAnnotation"))
    ELSE Outcome(o3, c4, EmptyResult)

deleteBackupEntry(o, t, graceHours, fails) ==
    IF GardenerName \notin o.finalizers
    THEN Outcome(o, <<>>, EmptyResult)
    ELSE
    LET gracePeriod == computeGracePeriod(graceHours)
        present == ParseBool(o.forceDeletion)
    IN
    IF present \/ (t - o.deletionTimestamp) > gracePeriod
    THEN
        IF "statusProcessing" \in fails
        THEN Outcome(o, <<"StatusProcessing">>, ErrResult("statusProcessing"))
        ELSE
        LET o1 == updateBackupEntryStatusProcessing(o, 2)
            c1 == <<"StatusProcessing", "GetSeedClient">>
        IN
        IF "seedClient" \in fails
        THEN Outcome(o1, c1, ErrResult("seedClient"))
        ELSE
        LET c2 == c1 \o <<"ActuatorDelete">> IN
        IF "actuator" \in fails
        THEN IF "statusError" \in fails
             THEN Outcome(o1, c2 \o <<"StatusError">>, ErrResult("statusError"))
             ELSE Outcome(updateBackupEntryStatusError(o1), c2 \o <<"StatusError">>,
                          ErrResult("actuator"))
        ELSE
        LET c3 == c2 \o <<"StatusSucceeded">> IN
        IF "statusSucceeded" \in fails
        THEN Outcome(o1, c3, ErrResult("statusSucceeded"))
        ELSE
        LET o2 == updateBackupEntryStatusSucceeded(o1)
            c4 == c3 \o <<"RemoveFinalizer">>
        IN
        IF "removeFinalizer" \in fails
        THEN Outcome(o2, c4, ErrResult("removeFinalizer"))
        ELSE Outcome([o2 EXCEPT !.finalizers = o2.finalizers \ {GardenerName}], c4, EmptyResult)
    ELSE
        IF "statusPending" \in fails
        THEN Outcome(o, <<"StatusPending">>, ErrResult("statusPending"))
        ELSE Outcome(updateBackupEntryStatusPending(o), <<"StatusPending">>, EmptyResult)

Routed(route, out) == [route |-> route, out |-> out]

\* a Reconcile that does not look at the deletion timestamp
reconcilerReconcileNoRouting(o, t, graceHours, fails) ==
    IF o = Absent
    THEN Routed("none", Outcome(o, <<>>, EmptyResult))
    ELSE IF "get" \in fails
    THEN Routed("none", Outcome(o, <<>>, ErrResult("get")))
    ELSE Routed("reconcile", reconcileBackupEntry(o, fails))

\* reconciler.Reconcile: fetch, then route on the deletion timestamp
reconcilerReconcile(o, t, graceHours, fails) ==
    IF o = Absent
    THEN Routed("none", Outcome(o, <<>>, EmptyResult))
    ELSE IF "get" \in fails
    THEN Routed("none", Outcome(o, <<>>, ErrResult("get")))
    ELSE IF o.deletionTimestamp # NoTime
    THEN Routed("delete", deleteBackupEntry(o, t, graceHours, fails))
    ELSE Routed("reconcile", reconcileBackupEntry(o, fails))

BackupEntryObjects ==
    [deletionTimestamp : {NoTime, 0},
     finalizers : SUBSET {GardenerName, OtherFinalizer},
     forceDeletion : {"", "false"},
     generation : {1},
     observedGeneration : {0},
     lastOperation : {NoOp},
     lastError : {FALSE}]

\* an object with a deletion timestamp and no finalizer does not exist
Stored(o) == o.deletionTimestamp # NoTime => o.finalizers # {}

BEInit ==
    /\ be \in {Absent} \cup {o \in BackupEntryObjects : Stored(o)}
    /\ beGraceHours \in 0..MaxGraceHours
    /\ beRoute = "none"
    /\ beCalls = <<>>
    /\ beResult = EmptyResult

\* one run of the reconciler for the BackupEntry's key
BEReconcile ==
    /\ \E fails \in FailSets :
         LET run == reconcilerReconcile(be, now, beGraceHours, fails)
             out == run.out
         IN
         /\ beRoute' = run.route
         /\ be' = IF out.obj # Absent /\ ~Stored(out.obj) THEN Absent ELSE out.obj
         /\ beCalls' = out.calls
         /\ beResult' = out.result
    /\ UNCHANGED <<now, beGraceHours, seedVars, valVars, extVars>>

\* a client deletes the BackupEntry: the API server sets the deletion
\* timestamp, or removes the object when it has no finalizer
BEUserDelete ==
    /\ be # Absent
    /\ be.deletionTimestamp = NoTime
    /\ be' = IF be.finalizers = {} THEN Absent ELSE [be EXCEPT !.deletionTimestamp = now]
    /\ UNCHANGED <<now, beGraceHours, beRoute, beCalls, beResult, seedVars, valVars, extVars>>

\* a client sets the force-deletion annotation
BEAnnotate ==
    /\ be # Absent
    /\ \E v \in ForceDeletionValues : v # be.forceDeletion /\ be' = [be EXCEPT !.forceDeletion = v]
    /\ UNCHANGED <<now, beGraceHours, beRoute, beCalls, beResult, seedVars, valVars, extVars>>

\* ===========================================================================
\* Seed lifecycle controller
\* ===========================================================================

\* config.Controllers.Seed.MonitorPeriod / ShootMonitorPeriod, in clock ticks
MonitorPeriod == 1
ShootMonitorPeriod == 1

SeedName == "seed-1"
OtherSeedName == "seed-2"
NoSeed == "<nil>"

SeedGardenletReady == "GardenletReady"
SeedBootstrapped == "Bootstrapped"
ShootAPIServerAvailable == "APIServerAvailable"
ShootControlPlaneHealthy == "ControlPlaneHealthy"
ShootEveryNodeReady == "EveryNodeReady"
ShootSystemComponentsHealthy == "SystemComponentsHealthy"
ShootHibernationPossible == "HibernationPossible"

ShootConditionTypes == {ShootAPIServerAvailable, ShootControlPlaneHealthy,
                        ShootEveryNodeReady, ShootSystemComponentsHealthy}
ShootConstraintTypes == {ShootHibernationPossible}

Condition(type, status, reason, ltt, lut) ==
    [type |-> type, status |-> status, reason |-> reason,
     lastTransitionTime |-> ltt, lastUpdateTime |-> lut]

\* helper.GetCondition: the index of the first condition of the type, 0 if none
GetConditionIndex(conditions, type) ==
    LET found == {i \in DOMAIN conditions : conditions[i].type = type}
    IN  IF found = {} THEN 0 ELSE CHOOSE i \in found : \A j \in found : i <= j

\* helper.InitCondition
InitCondition(type, t) == Condition(type, "Unknown", "ConditionInitialized", t, t)

\* helper.GetOrInitCondition
GetOrInitCondition(conditions, type, t) ==
    LET i == GetConditionIndex(conditions, type)
    IN  IF i # 0 THEN conditions[i] ELSE InitCondition(type, t)

\* helper.UpdatedCondition: the transition time moves only when the status changes
UpdatedCondition(c, status, reason, t) ==
    Condition(c.type, status, reason,
              IF c.status # status THEN t ELSE c.lastTransitionTime, t)

\* helper.MergeConditions: a new condition replaces the old one of its type,
\* or is appended
RECURSIVE MergeConditions(_, _)
MergeConditions(old, new) ==
    IF new = <<>> THEN old
    ELSE LET c == Head(new)
             found == {i \in DOMAIN old : old[i].type = c.type}
             merged == IF found = {} THEN Append(old, c)
                       ELSE [old EXCEPT ![CHOOSE i \in found : \A j \in found : j <= i] = c]
         IN  MergeConditions(merged, Tail(new))

\* conditionMapToConditions: the values of the map in the order the map
\* iteration yields them (order: a sequence of the keys)
conditionMapToConditions(m, order) == [i \in DOMAIN order |-> m[order[i]]]

\* iteration orders of the conditions map: two orders that yield the types a
\* shoot of this model can lack (the last two) in either relative order
AscendingOrder ==
    <<ShootAPIServerAvailable, ShootControlPlaneHealthy,
      ShootEveryNodeReady, ShootSystemComponentsHealthy>>
MapOrders ==
    {AscendingOrder,
     <<ShootSystemComponentsHealthy, ShootEveryNodeReady,
       ShootControlPlaneHealthy, ShootAPIServerAvailable>>}

\* the calls of reconcileSeedKey and Reconcile that can return an error, besides
\* the tasks: the seed lister, the seed update, the shoot lister
SeedFailPoints == {"none", "lister", "seedUpdate", "shootList"}

\* setStatusToUnknown: the status the update function writes into the shoot
\* it fetched (TryUpdateShootStatus re-reads the object named by shoot.ObjectMeta)
setStatusToUnknown(shoot, t, order) ==
    LET reason == "StatusUnknown"
        conditions == [ct \in ShootConditionTypes |->
                         UpdatedCondition(GetOrInitCondition(shoot.conditions, ct, t),
                                          "Unknown", reason, t)]
        constraints == [ct \in ShootConstraintTypes |->
                         UpdatedCondition(GetOrInitCondition(shoot.constraints, ct, t),
                                          "Unknown", reason, t)]
    IN  [shoot EXCEPT
           !.conditions = MergeConditions(shoot.conditions,
                                          conditionMapToConditions(conditions, order)),
           !.constraints = MergeConditions(shoot.constraints,
                                          conditionMapToConditions(constraints,
                                                                   <<ShootHibernationPossible>>))]

\* The range loop of Reconcile.  The closures appended to fns refer to the loop
\* variable `shoot`, which is one variable for the whole for statement, and they
\* run in flow.Parallel after the loop has ended: every task then reads the
\* value the variable holds at that time, the last element of shootList.
\* The result is the sequence of the indexes (into shootList) of the shoots the
\* tasks update, one entry per appended closure.
taskTargets(shootList, seedName) ==
    LET RECURSIVE loop(_, _)
        loop(i, fns) ==
            IF i > Len(shootList) THEN fns
            ELSE IF shootList[i].seedName = NoSeed \/ shootList[i].seedName # seedName
                 THEN loop(i + 1, fns)
                 ELSE loop(i + 1, Append(fns, "shoot"))
        fns == loop(1, <<>>)
        shoot == Len(shootList)
    IN  [k \in DOMAIN fns |-> shoot]

\* flow.Parallel(fns...): every task runs; task k fails when k \in failTasks.
\* The result is the shoot list after the updates of the tasks that succeed.
RECURSIVE runTasks(_, _, _, _, _, _)
runTasks(shootList, targets, k, failTasks, t, order) ==
    IF k > Len(targets) THEN shootList
    ELSE IF k \in failTasks
         THEN runTasks(shootList, targets, k + 1, failTasks, t, order)
         ELSE runTasks([shootList EXCEPT ![targets[k]] =
                            setStatusToUnknown(shootList[targets[k]], t, order)],
                       targets, k + 1, failTasks, t, order)

\* the heartbeat check whose comparison excludes the boundary (After instead of
\* !Before)
gardenletReportedRecentlyStrict(conditions, t) ==
    \E i \in DOMAIN conditions :
        /\ conditions[i].type = SeedGardenletReady
        /\ conditions[i].status # "Unknown"
        /\ conditions[i].lastUpdateTime > t - MonitorPeriod

\* the loop over seed.Status.Conditions: some GardenletReady condition is not
\* Unknown and its last heartbeat is not before now - monitorPeriod
gardenletReportedRecently(conditions, t) ==
    \E i \in DOMAIN conditions :
        /\ conditions[i].type = SeedGardenletReady
        /\ conditions[i].status # "Unknown"
        /\ ~(conditions[i].lastUpdateTime < t - MonitorPeriod)

\* the second-stage check with the negation lost
transitionWithinShootMonitorPeriodInverted(c, t) ==
    c.lastTransitionTime < t - ShootMonitorPeriod

\* the transition to Unknown is not before now - shootMonitorPeriod
transitionWithinShootMonitorPeriod(c, t) ==
    ~(c.lastTransitionTime < t - ShootMonitorPeriod)

SeedOutcome(conditions, shootList, seedWrite, shootWrites, fastRequeue, err) ==
    [conditions |-> conditions, shoots |-> shootList, seedWrite |-> seedWrite,
     shootWrites |-> shootWrites, fastRequeue |-> fastRequeue, err |-> err]

\* defaultControl.Reconcile
defaultControlReconcile(conditions, shootList, t, fail, failTasks, order) ==
    IF Len(conditions) = 0
    THEN SeedOutcome(conditions, shootList, "none", <<>>, TRUE, "nil")
    ELSE IF gardenletReportedRecently(conditions, t)
    THEN SeedOutcome(conditions, shootList, "none", <<>>, TRUE, "nil")
    ELSE
    LET conditionGardenletReady ==
            UpdatedCondition(GetOrInitCondition(conditions, SeedGardenletReady, t),
                             "Unknown", "SeedStatusUnknown", t)
    IN
    IF fail = "seedUpdate"
    THEN SeedOutcome(conditions, shootList, "failed", <<>>, FALSE, "seedUpdate")
    ELSE
    LET updated == MergeConditions(conditions, <<conditionGardenletReady>>) IN
    IF transitionWithinShootMonitorPeriod(conditionGardenletReady, t)
    THEN SeedOutcome(updated, shootList, "ok", <<>>, TRUE, "nil")
    ELSE IF fail = "shootList"
    THEN SeedOutcome(updated, shootList, "ok", <<>>, FALSE, "shootList")
    ELSE
    LET targets == taskTargets(shootList, SeedName)
        writes == [k \in DOMAIN targets |->
                     [shoot |-> shootList[targets[k]].name, ok |-> k \notin failTasks]]
        after == runTasks(shootList, targets, 1, failTasks, t, order)
    IN  IF \E k \in DOMAIN targets : k \in failTasks
        THEN SeedOutcome(updated, after, "ok", writes, FALSE, "tasks")
        ELSE SeedOutcome(updated, after, "ok", writes, FALSE, "nil")

\* seedQueue.AddAfter delays, in seconds
FastRequeueSeconds == 10
SlowRequeueSeconds == 60

AddAfter(seconds) == [op |-> "AddAfter", after |-> seconds]
Done == [op |-> "Done", after |-> 0]

KeyOutcome(get, called, out, queue, ret) ==
    [get |-> get, called |-> called, seedWrite |-> out.seedWrite,
     shootWrites |-> out.shootWrites, fastRequeue |-> out.fastRequeue, err |-> out.err,
     queue |-> queue, ret |-> ret]

\* reconcileSeedKey with the two delays exchanged
reconcileSeedKeySwapped(seedObj, shootList, t, fail, failTasks, order) ==
    LET untouched == SeedOutcome(seedObj.conditions, shootList, "none", <<>>, FALSE, "nil") IN
    IF ~seedObj.exists
    THEN [run |-> KeyOutcome("notfound", FALSE, untouched, <<Done>>, "nil"), out |-> untouched]
    ELSE IF fail = "lister"
    THEN [run |-> KeyOutcome("error", FALSE, untouched, <<>>, "lister"), out |-> untouched]
    ELSE
    LET out == defaultControlReconcile(seedObj.conditions, shootList, t, fail, failTasks, order) IN
    IF out.err # "nil"
    THEN [run |-> KeyOutcome("found", TRUE, out, <<>>, out.err), out |-> out]
    ELSE IF out.fastRequeue
    THEN [run |-> KeyOutcome("found", TRUE, out, <<AddAfter(SlowRequeueSeconds)>>, "nil"), out |-> out]
    ELSE [run |-> KeyOutcome("found", TRUE, out, <<AddAfter(FastRequeueSeconds)>>, "nil"), out |-> out]

\* Controller.reconcileSeedKey
reconcileSeedKey(seedObj, shootList, t, fail, failTasks, order) ==
    LET untouched == SeedOutcome(seedObj.conditions, shootList, "none", <<>>, FALSE, "nil") IN
    IF ~seedObj.exists
    THEN [run |-> KeyOutcome("notfound", FALSE, untouched, <<Done>>, "nil"), out |-> untouched]
    ELSE IF fail = "lister"
    THEN [run |-> KeyOutcome("error", FALSE, untouched, <<>>, "lister"), out |-> untouched]
    ELSE
    LET out == defaultControlReconcile(seedObj.conditions, shootList, t, fail, failTasks, order) IN
    IF out.err # "nil"
    THEN [run |-> KeyOutcome("found", TRUE, out, <<>>, out.err), out |-> out]
    ELSE IF out.fastRequeue
    THEN [run |-> KeyOutcome("found", TRUE, out, <<AddAfter(FastRequeueSeconds)>>, "nil"), out |-> out]
    ELSE [run |-> KeyOutcome("found", TRUE, out, <<AddAfter(SlowRequeueSeconds)>>, "nil"), out |-> out]

NotRunYet ==
    [get |-> "none", called |-> FALSE, seedWrite |-> "none", shootWrites |-> <<>>,
     fastRequeue |-> FALSE, err |-> "nil", queue |-> <<>>, ret |-> "nil"]

Shoot(name, seedName, conditions, constraints) ==
    [name |-> name, seedName |-> seedName, conditions |-> conditions, constraints |-> constraints]

\* the status of a shoot the gardenlet has checked, and of one it has not yet
HealthyConditions ==
    <<Condition(ShootAPIServerAvailable, "True", "Ok", 0, 0),
      Condition(ShootControlPlaneHealthy, "True", "Ok", 0, 0),
      Condition(ShootEveryNodeReady, "Progressing", "Ok", 0, 0),
      Condition(ShootSystemComponentsHealthy, "False", "Ok", 0, 0)>>
PartialConditions ==
    <<Condition(ShootControlPlaneHealthy, "True", "Ok", 0, 0),
      Condition(ShootAPIServerAvailable, "True", "Ok", 0, 0)>>
HealthyConstraints == <<Condition(ShootHibernationPossible, "True", "Ok", 0, 0)>>

ShootNames == <<"shoot-a", "shoot-b", "shoot-c", "shoot-d">>

\* the shoot lists of length n: distinct names, any seed assignment, all shoots
\* checked by the gardenlet or none of them
ShootLists(n) ==
    {[i \in 1..n |-> Shoot(ShootNames[i], seeds[i], status[1], status[2])] :
        seeds \in [1..n -> {SeedName, OtherSeedName, NoSeed}],
        status \in {<<HealthyConditions, HealthyConstraints>>, <<PartialConditions, <<>> >>}}

SeedConditionLists ==
    {<<>>,
     <<Condition(SeedGardenletReady, "True", "GardenletReady", 0, 0)>>,
     <<Condition(SeedGardenletReady, "Unknown", "SeedStatusUnknown", 0, 0)>>,
     <<Condition(SeedBootstrapped, "True", "BootstrappingSucceeded", 0, 0)>>,
     <<Condition(SeedBootstrapped, "True", "BootstrappingSucceeded", 0, 0),
       Condition(SeedGardenletReady, "False", "GardenletNotReady", 0, 0)>>}

SeedInit ==
    /\ seed \in [exists : {TRUE}, conditions : SeedConditionLists]
    /\ shoots \in UNION {ShootLists(n) : n \in 0..MaxShoots}
    /\ seedRun = NotRunYet

\* one run of the seed queue worker for the seed's key
SeedReconcileKey ==
    /\ \E fail \in SeedFailPoints :
       \E failTasks \in IF fail = "none" THEN SUBSET (1..Len(taskTargets(shoots, SeedName)))
                        ELSE {{}} :
       \E order \in IF fail = "none" THEN MapOrders ELSE {AscendingOrder} :
         LET r == reconcileSeedKey(seed, shoots, now, fail, failTasks, order) IN
         /\ seedRun' = r.run
         /\ seed' = [seed EXCEPT !.conditions = r.out.conditions]
         /\ shoots' = r.out.shoots
    /\ UNCHANGED <<now, beVars, valVars, extVars>>

\* the gardenlet reports the seed status: its heartbeat
GardenletHeartbeat ==
    /\ seed.exists
    /\ \E status \in {"True", "False"} :
         seed' = [seed EXCEPT !.conditions =
                    MergeConditions(seed.conditions,
                        <<UpdatedCondition(GetOrInitCondition(seed.conditions, SeedGardenletReady, now),
                                           status, "GardenletReady", now)>>)]
    /\ UNCHANGED <<now, shoots, seedRun, beVars, valVars, extVars>>

\* the Seed is deleted
SeedDeleted ==
    /\ seed.exists
    /\ seed' = [exists |-> FALSE, conditions |-> <<>>]
    /\ UNCHANGED <<now, shoots, seedRun, beVars, valVars, extVars>>

\* ===========================================================================
\* ShootValidator admission plugin
\* ===========================================================================

\* strings are sequences of characters
HasPrefix(str, prefix) ==
    Len(prefix) <= Len(str) /\ SubSeq(str, 1, Len(prefix)) = prefix
HasSuffix(str, suffix) ==
    Len(suffix) <= Len(str) /\ SubSeq(str, Len(str) - Len(suffix) + 1, Len(str)) = suffix
Contains(str, sub) ==
    \E i \in 1..(Len(str) - Len(sub) + 1) : SubSeq(str, i, i + Len(sub) - 1) = sub

NilString == <<"<nil>">>

\* metav1.ObjectMeta.Annotations: a nil map, or a map given as a set of
\* <<key, value>> pairs; reflect.DeepEqual tells a nil map from an empty one
Annotations(isNil, pairs) == [isNil |-> isNil, pairs |-> pairs]
NilAnnotations == Annotations(TRUE, {})
HasAnnotation(a, key) == \E kv \in a.pairs : kv[1] = key
AnnotationValue(a, key) == (CHOOSE kv \in a.pairs : kv[1] = key)[2]
SetAnnotation(a, key, value) ==
    Annotations(FALSE, {kv \in a.pairs : kv[1] # key} \cup {<<key, value>>})

ConfirmationDeletion == "confirmation.gardener.cloud/deletion"
ConfirmationDeletionDeprecated == "confirmation.garden.sapcloud.io/deletion"
ShootTasks == "shoot.gardener.cloud/tasks"
ShootTaskDeployInfrastructure == "deployInfrastructure"
OtherAnnotation == "example.org/owner"

\* controllerutils.AddTasks for one task on annotations without other tasks
AddTasks(a, task) == SetAnnotation(a, ShootTasks, task)

\* the outcome of Admit: nil or an API error, and the (mutated) object
AdmitNil == "nil"
BadRequest == "BadRequest"
Forbidden == "Forbidden"
Admission(err, reason, obj) ==
    [err |-> err, reason |-> reason, obj |-> obj, fieldErrs |-> <<>>]

\* the Forbidden answer that carries the field error list
AdmissionFieldErrors(reason, obj, fieldErrs) ==
    [err |-> Forbidden, reason |-> reason, obj |-> obj, fieldErrs |-> fieldErrs]

\* core.Shoot{}: the old object of a CREATE
EmptySpec ==
    [seedName |-> NilString, providerType |-> "", cloudProfileName |-> "",
     infrastructureConfig |-> "<nil>", domain |-> NilString, hibernation |-> FALSE,
     version |-> <<>>, networkingSet |-> FALSE, region |-> "", workers |-> <<>>]
EmptyStatus == [technicalID |-> <<>>, lastOperation |-> NoOp, hibernationPossible |-> "<absent>"]
EmptyShoot ==
    [namespace |-> "", name |-> <<>>, annotations |-> NilAnnotations, finalizers |-> {},
     deletionTimestamp |-> FALSE,
     spec |-> EmptySpec, status |-> EmptyStatus]

\* validateKubernetesVersionConstraints.  A version is <<major, minor, patch>>
\* or <<major, minor>>; a constraint is [version, expired].  The result is
\* [ok, default]: default is the latest patch version found for a
\* <<major, minor>> request, <<>> if there is none.
validateKubernetesVersionConstraints(constraints, shootVersion, oldShootVersion) ==
    IF shootVersion = oldShootVersion THEN [ok |-> TRUE, default |-> <<>>]
    ELSE
    LET getLatestPatchVersion == Len(shootVersion) = 2
        RECURSIVE scan(_, _)
        scan(i, latestVersion) ==
            IF i > Len(constraints)
            THEN IF latestVersion # <<>> THEN [ok |-> TRUE, default |-> latestVersion]
                 ELSE [ok |-> FALSE, default |-> <<>>]
            ELSE LET vc == constraints[i] IN
                 IF vc.expired THEN scan(i + 1, latestVersion)
                 ELSE IF vc.version = shootVersion THEN [ok |-> TRUE, default |-> <<>>]
                 ELSE IF ~getLatestPatchVersion THEN scan(i + 1, latestVersion)
                 ELSE IF vc.version[1] # shootVersion[1] \/ vc.version[2] # shootVersion[2]
                      THEN scan(i + 1, latestVersion)
                 ELSE IF latestVersion = <<>> \/ vc.version[3] > latestVersion[3]
                      THEN scan(i + 1, vc.version)
                 ELSE scan(i + 1, latestVersion)
    IN  scan(1, <<>>)

\* hasDomainIntersection
hasDomainIntersection(domainA, domainB) ==
    IF domainA = domainB THEN TRUE
    ELSE LET short == IF Len(domainA) > Len(domainB) THEN domainB ELSE domainA
             long == IF Len(domainA) > Len(domainB) THEN domainA ELSE domainB
             dotted == IF ~HasPrefix(short, <<".">>) THEN <<".">> \o short ELSE short
         IN  HasSuffix(long, dotted)

\* validateDNSDomainUniqueness: the field error appended ("" for none); the
\* shoots of the lister are visited in order and the first conflict ends the loop
validateDNSDomainUniqueness(lister, name, domain) ==
    IF domain = NilString THEN ""
    ELSE LET RECURSIVE visit(_)
             visit(i) ==
                 IF i > Len(lister) THEN ""
                 ELSE IF lister[i].name = name THEN visit(i + 1)
                 ELSE IF lister[i].spec.domain = NilString THEN visit(i + 1)
                 ELSE IF lister[i].spec.domain = domain THEN "Duplicate"
                 ELSE IF hasDomainIntersection(lister[i].spec.domain, domain) THEN "Forbidden"
                 ELSE visit(i + 1)
         IN  visit(1)

\* seedChanged
seedChanged(operation, newShoot, oldShoot) ==
    IF operation # "UPDATE" THEN FALSE
    ELSE LET newSeedName == IF newShoot.spec.seedName # NilString
                            THEN newShoot.spec.seedName ELSE <<>>
             oldSeedName == IF oldShoot.spec.seedName # NilString
                            THEN oldShoot.spec.seedName ELSE <<>>
         IN  newSeedName # oldSeedName

\* a field error of the list Admit answers with: index is the worker index, 0
\* for a field of the shoot spec
FieldError(type, field, index) == [type |-> type, field |-> field, index |-> index]

\* core.ShootMachineImage: a nil pointer, and the empty image of the default old worker
NoImage == [name |-> "<nil>", version |-> 0]
EmptyImage == [name |-> "", version |-> 0]

\* core.Worker; volumeType is "<nil>" when the volume or its type is nil
Worker(name, machineType, image, volumeType, zones) ==
    [name |-> name, machineType |-> machineType, image |-> image,
     volumeType |-> volumeType, zones |-> zones]

\* the old worker validateProvider starts from when no old worker has the name
DefaultOldWorker == Worker("", "", EmptyImage, "<nil>", <<>>)

\* a zone of the region lists the type as unavailable: the loops of
\* validateMachineTypes / validateVolumeTypes over regions, zones and types
unavailableInAtLeastOneZone(regions, region, zones, type, kind) ==
    \E r \in DOMAIN regions :
        /\ regions[r].name = region
        /\ \E j \in DOMAIN zones, z \in DOMAIN regions[r].zones :
             /\ regions[r].zones[z].name = zones[j]
             /\ type \in Range(IF kind = "machine"
                               THEN regions[r].zones[z].unavailableMachineTypes
                               ELSE regions[r].zones[z].unavailableVolumeTypes)

\* validateMachineTypes without the comparison with the old machine type
validateMachineTypesAlways(constraints, machineType, oldMachineType, regions, region, zones) ==
    \E t \in DOMAIN constraints :
        /\ constraints[t].usable # "false"
        /\ ~unavailableInAtLeastOneZone(regions, region, zones, machineType, "machine")
        /\ constraints[t].name = machineType

\* validateMachineTypes: usable is "nil", "true" or "false"
validateMachineTypes(constraints, machineType, oldMachineType, regions, region, zones) ==
    IF machineType = oldMachineType THEN TRUE
    ELSE \E t \in DOMAIN constraints :
            /\ constraints[t].usable # "false"
            /\ ~unavailableInAtLeastOneZone(regions, region, zones, machineType, "machine")
            /\ constraints[t].name = machineType

\* validateVolumeTypes
validateVolumeTypes(constraints, volumeType, oldVolumeType, regions, region, zones) ==
    IF volumeType = "<nil>" \/ (oldVolumeType # "<nil>" /\ volumeType = oldVolumeType) THEN TRUE
    ELSE \E v \in DOMAIN constraints :
            /\ constraints[v].usable # "false"
            /\ ~unavailableInAtLeastOneZone(regions, region, zones, volumeType, "volume")
            /\ constraints[v].name = volumeType

\* validateZone: [ok, validValues]; only the first region of the name is visited
validateZone(constraints, region, zone) ==
    LET found == {r \in DOMAIN constraints : constraints[r].name = region} IN
    IF found = {} THEN [ok |-> FALSE, validValues |-> <<>>]
    ELSE LET r == CHOOSE x \in found : \A y \in found : x <= y
             names == [z \in DOMAIN constraints[r].zones |-> constraints[r].zones[z].name]
         IN  IF zone \in Range(names) THEN [ok |-> TRUE, validValues |-> <<>>]
             ELSE [ok |-> FALSE, validValues |-> names]

\* validateZones: the field errors of the zones of one worker
validateZones(constraints, region, oldRegion, worker, oldWorker, index) ==
    IF region = oldRegion /\ worker.zones = oldWorker.zones THEN <<>>
    ELSE LET RECURSIVE visit(_)
             visit(j) ==
                 IF j > Len(worker.zones) THEN <<>>
                 ELSE LET v == validateZone(constraints, region, worker.zones[j]) IN
                      (IF v.ok THEN <<>>
                       ELSE IF Len(v.validValues) = 0
                       THEN <<FieldError("Invalid", "zones", index)>>
                       ELSE <<FieldError("NotSupported", "zones", index)>>) \o visit(j + 1)
         IN  visit(1)

\* helper.DetermineLatestMachineImageVersion: the highest version of the image
DetermineLatestMachineImageVersion(machineImage) ==
    LET versions == {machineImage.versions[i].version : i \in DOMAIN machineImage.versions}
    IN  CHOOSE v \in versions : \A w \in versions : w <= v

\* getDefaultMachineImage: [ok, image]
getDefaultMachineImage(machineImages) ==
    IF Len(machineImages) = 0 THEN [ok |-> FALSE, image |-> NoImage]
    ELSE [ok |-> TRUE,
          image |-> [name |-> machineImages[1].name,
                     version |-> DetermineLatestMachineImageVersion(machineImages[1])]]

\* validateMachineImagesConstraints
validateMachineImagesConstraints(constraints, image, oldImage) ==
    IF oldImage = NoImage \/ image = oldImage THEN TRUE
    ELSE IF image = NoImage THEN FALSE
    ELSE \E m \in DOMAIN constraints :
            /\ constraints[m].name = image.name
            /\ \E v \in DOMAIN constraints[m].versions :
                 /\ ~constraints[m].versions[v].expired
                 /\ constraints[m].versions[v].version = image.version

\* helper.FindWorkerByName: the index of the first worker of the name, 0 if none
FindWorkerByName(workers, name) ==
    LET found == {i \in DOMAIN workers : workers[i].name = name}
    IN  IF found = {} THEN 0 ELSE CHOOSE i \in found : \A j \in found : i <= j

\* getOldWorkerMachineImageOrDefault
getOldWorkerMachineImageOrDefault(workers, name, defaultImage) ==
    LET i == FindWorkerByName(workers, name) IN
    IF i # 0 /\ workers[i].image # NoImage THEN workers[i].image ELSE defaultImage

\* validateProvider: the field errors in the order they are appended, and the
\* defaulted version.  The networks of shoot and seed are disjoint in this model.
validateProvider(cloudProfile, shoot, oldShoot) ==
    LET v == validateKubernetesVersionConstraints(cloudProfile.versions, shoot.spec.version,
                                                  oldShoot.spec.version)
        workers == shoot.spec.workers
        oldWorkers == oldShoot.spec.workers
        oldWorkerOf(i) ==
            LET found == {k \in DOMAIN oldWorkers : oldWorkers[k].name = workers[i].name} IN
            IF found = {} THEN DefaultOldWorker
            ELSE oldWorkers[CHOOSE k \in found : \A m \in found : k <= m]
        workerErrs(i) ==
            LET worker == workers[i]
                oldWorker == oldWorkerOf(i)
            IN  (IF validateMachineTypes(cloudProfile.machineTypes, worker.machineType,
                                         oldWorker.machineType, cloudProfile.regions,
                                         shoot.spec.region, worker.zones)
                 THEN <<>> ELSE <<FieldError("NotSupported", "machine.type", i)>>)
                \o (IF validateMachineImagesConstraints(cloudProfile.machineImages,
                                                        worker.image, oldWorker.image)
                    THEN <<>> ELSE <<FieldError("NotSupported", "machine.image", i)>>)
                \o (IF validateVolumeTypes(cloudProfile.volumeTypes, worker.volumeType,
                                           oldWorker.volumeType, cloudProfile.regions,
                                           shoot.spec.region, worker.zones)
                    THEN <<>> ELSE <<FieldError("NotSupported", "volume.type", i)>>)
                \o validateZones(cloudProfile.regions, shoot.spec.region,
                                 oldShoot.spec.region, worker, oldWorker, i)
        RECURSIVE allWorkerErrs(_)
        allWorkerErrs(i) == IF i > Len(workers) THEN <<>> ELSE workerErrs(i) \o allWorkerErrs(i + 1)
    IN  [errs |-> (IF v.ok THEN <<>> ELSE <<FieldError("NotSupported", "kubernetes.version", 0)>>)
                  \o allWorkerErrs(1),
         version |-> IF v.ok /\ v.default # <<>> THEN v.default ELSE shoot.spec.version]

LengthLimit == 21

\* the annotation check for a shoot on a seed marked for deletion: TRUE when
\* the annotations differ in more than the confirmation annotations the new
\* object carries
annotationsChangedOnDeletedSeed(newAnnotations, oldAnnotations) ==
    IF newAnnotations = oldAnnotations THEN FALSE
    ELSE LET copy(old, annotation) ==
                 IF HasAnnotation(newAnnotations, annotation)
                 THEN SetAnnotation(old, annotation, AnnotationValue(newAnnotations, annotation))
                 ELSE old
             patched == copy(copy(oldAnnotations, ConfirmationDeletion),
                             ConfirmationDeletionDeprecated)
         IN  newAnnotations # patched

\* the finalizer check without the state and progress of the last operation
finalizerRemovalForbiddenAnyDelete(shoot, oldShoot) ==
    /\ Len(shoot.status.technicalID) > 0
    /\ shoot.status.lastOperation # NoOp
    /\ GardenerName \in oldShoot.finalizers
    /\ GardenerName \notin shoot.finalizers
    /\ ~(shoot.status.lastOperation.type = "Delete")

\* the finalizer check: TRUE when the gardener finalizer is being removed from
\* a shoot whose deletion has not completed successfully
finalizerRemovalForbidden(shoot, oldShoot) ==
    /\ Len(shoot.status.technicalID) > 0
    /\ shoot.status.lastOperation # NoOp
    /\ GardenerName \in oldShoot.finalizers
    /\ GardenerName \notin shoot.finalizers
    /\ ~(/\ shoot.status.lastOperation.type = "Delete"
         /\ shoot.status.lastOperation.state = "Succeeded"
         /\ shoot.status.lastOperation.progress = 100)

\* helper.TaintsHave
TaintsHave(taints, key) == key \in taints

SeedTaintProtected == "seed.gardener.cloud/protected"

\* the protected seed check applied to every request
protectedSeedForbiddenAlways(needCheckForProtectedSeed, namespace, seedObj) ==
    /\ namespace # GardenNamespace
    /\ seedObj # Absent
    /\ TaintsHave(seedObj.taints, SeedTaintProtected)

\* the protected seed check
protectedSeedForbidden(needCheckForProtectedSeed, namespace, seedObj) ==
    /\ needCheckForProtectedSeed
    /\ namespace # GardenNamespace
    /\ seedObj # Absent
    /\ TaintsHave(seedObj.taints, SeedTaintProtected)

\* the project check of a CREATE
projectMarkedForDeletion(operation, project) ==
    operation = "CREATE" /\ project.deleting

\* the seed check for every operation
seedMarkedForDeletionAnyOperation(operation, seedObj) ==
    seedObj # Absent /\ seedObj.deleting

\* the seed check of a CREATE
seedMarkedForDeletion(operation, seedObj) ==
    seedObj # Absent /\ seedObj.deleting /\ operation = "CREATE"

\* the hibernation check that rejects only a constraint with status False
hibernationForbiddenOnlyFalse(shoot, oldShoot) ==
    /\ ~oldShoot.spec.hibernation
    /\ shoot.spec.hibernation
    /\ shoot.status.hibernationPossible = "False"

\* the hibernation check; status.hibernationPossible is the status of the
\* condition helper.GetCondition finds in status.constraints, "<absent>" for nil
hibernationForbidden(shoot, oldShoot) ==
    /\ ~oldShoot.spec.hibernation
    /\ shoot.spec.hibernation
    /\ shoot.status.hibernationPossible # "<absent>"
    /\ shoot.status.hibernationPossible # "True"

\* ValidateShoot.Admit for a request on the Shoot resource itself.
\* cloudProfiles, seeds and projects are the listers as functions from a name
\* (projects: from a namespace) to the object or Absent; lister is the shoot list.
Admit(operation, object, oldObject, cloudProfiles, seeds, projects, lister) ==
    IF operation = "UPDATE" /\ object.spec = oldObject.spec
       /\ [object EXCEPT !.spec = EmptySpec, !.status = EmptyStatus]
            = [oldObject EXCEPT !.spec = EmptySpec, !.status = EmptyStatus]
    THEN Admission(AdmitNil, "unchanged", object)
    ELSE IF operation = "UPDATE" /\ object.spec.providerType # oldObject.spec.providerType
    THEN Admission(BadRequest, "providerTypeChanged", object)
    ELSE
    LET shoot == object
        cloudProfile == cloudProfiles[shoot.spec.cloudProfileName]
        seedObj == IF shoot.spec.seedName # NilString THEN seeds[shoot.spec.seedName] ELSE Absent
        project == projects[shoot.namespace]
    IN
    IF cloudProfile = Absent THEN Admission(BadRequest, "cloudProfileNotFound", object)
    ELSE IF shoot.spec.seedName # NilString /\ seedObj = Absent
    THEN Admission(BadRequest, "seedNotFound", object)
    ELSE IF project = Absent THEN Admission(BadRequest, "projectNotFound", object)
    ELSE IF operation = "CREATE" /\ Len(project.name \o shoot.name) > LengthLimit
    THEN Admission(BadRequest, "nameTooLong", object)
    ELSE IF operation = "CREATE" /\ Contains(project.name, <<"-", "-">>)
    THEN Admission(BadRequest, "projectNameHyphens", object)
    ELSE IF projectMarkedForDeletion(operation, project)
    THEN Admission(Forbidden, "projectMarkedForDeletion", object)
    ELSE
    LET changed == seedChanged(operation, object, oldObject)
        needCheckForProtectedSeed == changed \/ operation = "CREATE"
    IN
    IF protectedSeedForbidden(needCheckForProtectedSeed, shoot.namespace, seedObj)
    THEN Admission(Forbidden, "protectedSeed", object)
    ELSE IF seedMarkedForDeletion(operation, seedObj)
    THEN Admission(Forbidden, "seedMarkedForDeletion", object)
    ELSE IF shoot.spec.providerType # cloudProfile.type
    THEN Admission(BadRequest, "providerTypeMismatch", object)
    ELSE
    LET oldShoot == IF operation = "UPDATE" THEN oldObject ELSE EmptyShoot IN
    IF seedObj # Absent /\ seedObj.deleting
       /\ annotationsChangedOnDeletedSeed(shoot.annotations, oldShoot.annotations)
    THEN Admission(Forbidden, "annotationsOnDeletedSeed", object)
    ELSE IF seedObj # Absent /\ seedObj.deleting /\ shoot.spec # oldShoot.spec
    THEN Admission(Forbidden, "specOnDeletedSeed", object)
    ELSE IF finalizerRemovalForbidden(shoot, oldShoot)
    THEN Admission(Forbidden, "finalizerRemoval", object)
    ELSE IF hibernationForbidden(shoot, oldShoot)
    THEN Admission(Forbidden, "hibernation", object)
    ELSE
    LET defaulted == seedObj # Absent /\ ~shoot.spec.networkingSet /\ seedObj.shootDefaults
        shoot1 == IF defaulted THEN [shoot EXCEPT !.spec.networkingSet = TRUE] ELSE shoot
    IN
    LET image == getDefaultMachineImage(cloudProfile.machineImages) IN
    IF ~image.ok
    THEN Admission(BadRequest, "noMachineImage", shoot1)
    ELSE
    LET shoot2 == IF oldShoot.spec.infrastructureConfig # shoot1.spec.infrastructureConfig
                  THEN [shoot1 EXCEPT !.annotations =
                           AddTasks(shoot1.annotations, ShootTaskDeployInfrastructure)]
                  ELSE shoot1
        defaultedWorkers ==
            [i \in DOMAIN shoot2.spec.workers |->
                IF ~shoot2.deletionTimestamp /\ shoot2.spec.workers[i].image = NoImage
                THEN [shoot2.spec.workers[i] EXCEPT !.image =
                         getOldWorkerMachineImageOrDefault(oldShoot.spec.workers,
                                                           shoot2.spec.workers[i].name,
                                                           image.image)]
                ELSE shoot2.spec.workers[i]]
        shoot2w == [shoot2 EXCEPT !.spec.workers = defaultedWorkers]
        networkErrs == IF seedObj # Absent /\ ~shoot2w.spec.networkingSet
                       THEN <<FieldError("Required", "networking.pods", 0),
                              FieldError("Required", "networking.services", 0)>>
                       ELSE <<>>
        provider == validateProvider(cloudProfile, shoot2w, oldShoot)
        shoot3 == [shoot2w EXCEPT !.spec.version = provider.version]
        dnsErr == validateDNSDomainUniqueness(lister, shoot3.name, shoot3.spec.domain)
        allErrs == networkErrs \o provider.errs
                   \o (IF dnsErr # "" THEN <<FieldError(dnsErr, "dns.domain", 0)>> ELSE <<>>)
    IN
    IF Len(allErrs) > 0
    THEN AdmissionFieldErrors(IF dnsErr = "Duplicate" THEN "fieldErrors:dnsDuplicate"
                              ELSE IF dnsErr = "Forbidden" THEN "fieldErrors:dnsForbidden"
                              ELSE "fieldErrors", shoot3, allErrs)
    ELSE Admission(AdmitNil, "admitted", shoot3)

\* ---- the objects of the ShootValidator model

ShootName == <<"f", "o", "o">>
OtherShootName == <<"b", "a", "r">>
LongShootName == [i \in 1..19 |-> "x"]

ProjectNamespace == "garden-dev"
OtherNamespace == "garden-core"
HyphenNamespace == "garden-a--b"
OrphanNamespace == "orphan"

HealthySeed == <<"seed-1">>
DeletedSeed == <<"seed-2">>
MissingSeed == <<"seed-3">>
ProtectedSeed == <<"seed-4">>

\* the seed lister: seed-1 offers shoot network defaults, seed-2 has a deletion
\* timestamp, seed-3 does not exist, seed-4 carries the protected taint
SeedLister ==
    [n \in {HealthySeed, DeletedSeed, MissingSeed, ProtectedSeed} |->
        IF n = MissingSeed THEN Absent
        ELSE [deleting |-> n = DeletedSeed,
              taints |-> IF n = ProtectedSeed THEN {SeedTaintProtected} ELSE {},
              shootDefaults |-> n \in {HealthySeed, ProtectedSeed}]]

\* the offers of the cloud profile: image img in an expired version 1 and a
\* version 2; machine type m2 and volume type v2 are not usable; m3 and v3 are
\* unavailable in zone z1 of region r1; no other region is offered
ProfileMachineImages ==
    <<[name |-> "img", versions |-> <<[version |-> 1, expired |-> TRUE],
                                      [version |-> 2, expired |-> FALSE]>>]>>
ProfileMachineTypes ==
    <<[name |-> "m1", usable |-> "nil"], [name |-> "m2", usable |-> "false"],
      [name |-> "m3", usable |-> "true"]>>
ProfileVolumeTypes ==
    <<[name |-> "v1", usable |-> "nil"], [name |-> "v2", usable |-> "false"],
      [name |-> "v3", usable |-> "true"]>>
ProfileRegions ==
    <<[name |-> "r1",
       zones |-> <<[name |-> "z1", unavailableMachineTypes |-> <<"m3">>,
                    unavailableVolumeTypes |-> <<"v3">>],
                   [name |-> "z2", unavailableMachineTypes |-> <<>>,
                    unavailableVolumeTypes |-> <<>>]>>]>>

\* the cloud profile lister
CloudProfileLister ==
    [n \in {"aws", "aws-no-images", "missing"} |->
        IF n = "missing" THEN Absent
        ELSE [type |-> "aws",
              machineImages |-> IF n = "aws" THEN ProfileMachineImages ELSE <<>>,
              versions |-> <<[version |-> <<1, 16, 0>>, expired |-> TRUE],
                             [version |-> <<1, 17, 1>>, expired |-> FALSE],
                             [version |-> <<1, 17, 2>>, expired |-> FALSE]>>,
              machineTypes |-> ProfileMachineTypes,
              volumeTypes |-> ProfileVolumeTypes,
              regions |-> ProfileRegions]]

\* admissionutils.GetProject: the project of a namespace
ProjectLister(deleting) ==
    [ns \in {ProjectNamespace, OtherNamespace, HyphenNamespace, OrphanNamespace,
             GardenNamespace} |->
        IF ns = OrphanNamespace THEN Absent
        ELSE IF ns = GardenNamespace
        THEN [name |-> <<"g", "a", "r", "d", "e", "n">>, deleting |-> FALSE]
        ELSE IF ns = HyphenNamespace
        THEN [name |-> <<"a", "-", "-", "b">>, deleting |-> FALSE]
        ELSE IF ns = OtherNamespace
        THEN [name |-> <<"c", "o", "r", "e">>, deleting |-> FALSE]
        ELSE [name |-> <<"d", "e", "v">>, deleting |-> deleting]]

\* domains: b.a, its subdomain c.b.a, its parent a, and cb.a, which ends with
\* the characters of b.a but not at a label boundary
DomainBA == <<"b", ".", "a">>
DomainCBA == <<"c", ".", "b", ".", "a">>
DomainA == <<"a">>
DomainCBdotA == <<"c", "b", ".", "a">>

AnnotationMaps ==
    {NilAnnotations,
     Annotations(FALSE, {}),
     Annotations(FALSE, {<<ConfirmationDeletion, "true">>}),
     Annotations(FALSE, {<<ConfirmationDeletionDeprecated, "true">>}),
     Annotations(FALSE, {<<OtherAnnotation, "x">>}),
     Annotations(FALSE, {<<ConfirmationDeletion, "true">>, <<OtherAnnotation, "x">>})}

ShootLastOperation(type, state, progress) == [type |-> type, state |-> state, progress |-> progress]

TechnicalID == <<"shoot--dev--foo">>

\* the status of a stored shoot
ShootStatuses ==
    {EmptyStatus}
    \cup [technicalID : {TechnicalID},
          lastOperation : {NoOp, ShootLastOperation("Reconcile", "Succeeded", 100),
                           ShootLastOperation("Delete", "Processing", 50),
                           ShootLastOperation("Delete", "Succeeded", 100)},
          hibernationPossible : {"<absent>"}]
    \cup [technicalID : {TechnicalID},
          lastOperation : {ShootLastOperation("Reconcile", "Succeeded", 100)},
          hibernationPossible : {"True", "False", "Unknown"}]

ValidSpec(seedName, domain, hibernation) ==
    [seedName |-> seedName, providerType |-> "aws", cloudProfileName |-> "aws",
     infrastructureConfig |-> "<nil>", domain |-> domain, hibernation |-> hibernation,
     version |-> <<1, 17, 1>>, networkingSet |-> TRUE, region |-> "r1", workers |-> <<>>]

\* the shoots that can be stored for the key garden-dev/foo
StoredShoots ==
    {[namespace |-> ProjectNamespace, name |-> ShootName, annotations |-> a, finalizers |-> f,
      deletionTimestamp |-> FALSE,
      spec |-> ValidSpec(sn, d, h), status |-> st] :
        a \in {NilAnnotations, Annotations(FALSE, {<<ConfirmationDeletion, "true">>}),
               Annotations(FALSE, {<<OtherAnnotation, "x">>})},
        f \in {{}, {GardenerName}},
        sn \in {NilString, HealthySeed, DeletedSeed, ProtectedSeed},
        d \in {NilString, DomainCBA},
        h \in BOOLEAN,
        st \in ShootStatuses}

OtherShoot(namespace, name, domain) ==
    [namespace |-> namespace, name |-> name, spec |-> [domain |-> domain]]

\* the other shoots of the shoot lister
OtherShootLists ==
    {<<>>,
     <<OtherShoot(ProjectNamespace, OtherShootName, DomainBA)>>,
     <<OtherShoot(OtherNamespace, OtherShootName, NilString),
       OtherShoot(OtherNamespace, ShootName, DomainBA)>>}

NoRequest == [operation |-> "none"]

ValInit ==
    /\ vOld \in {Absent} \cup StoredShoots
    /\ vOthers \in OtherShootLists
    /\ vProjectDeleting \in BOOLEAN
    /\ vLast = NoRequest

ShootLister == (IF vOld = Absent THEN <<>> ELSE <<vOld>>) \o vOthers

Recorded(operation, object, oldObject, r) ==
    [operation |-> operation, object |-> object, oldObject |-> oldObject,
     err |-> r.err, reason |-> r.reason, admitted |-> r.obj, fieldErrs |-> r.fieldErrs]

\* the objects of CREATE requests
CreateCandidates ==
    {[namespace |-> ns, name |-> n, annotations |-> NilAnnotations, finalizers |-> {},
      deletionTimestamp |-> FALSE,
      spec |-> [seedName |-> sn, providerType |-> pt, cloudProfileName |-> cp,
                infrastructureConfig |-> ic, domain |-> d, hibernation |-> FALSE,
                version |-> v, networkingSet |-> net, region |-> "r1", workers |-> <<>>],
      status |-> EmptyStatus] :
        ns \in {ProjectNamespace, HyphenNamespace, OrphanNamespace, GardenNamespace},
        n \in {ShootName, LongShootName},
        sn \in {NilString, HealthySeed, DeletedSeed, MissingSeed, ProtectedSeed},
        pt \in {"aws", "gcp"},
        cp \in {"aws", "aws-no-images", "missing"},
        ic \in {"<nil>", "cfg-1"},
        d \in {NilString, DomainBA},
        v \in {<<1, 17, 1>>, <<1, 17>>, <<1, 16, 0>>},
        net \in BOOLEAN}

\* the specs of UPDATE requests: the stored spec with one field changed, or
\* with a second field changed that an earlier check of Admit rejects
SpecEdits(spec) ==
    {spec}
    \cup {[spec EXCEPT !.seedName = sn] :
            sn \in {NilString, HealthySeed, DeletedSeed, MissingSeed, ProtectedSeed}}
    \cup {[spec EXCEPT !.seedName = ProtectedSeed, !.cloudProfileName = "missing"],
          [spec EXCEPT !.hibernation = TRUE, !.providerType = "gcp"]}
    \cup {[spec EXCEPT !.providerType = "gcp"], [spec EXCEPT !.cloudProfileName = "missing"],
          [spec EXCEPT !.infrastructureConfig = "cfg-1"],
          [spec EXCEPT !.hibernation = ~spec.hibernation]}
    \cup {[spec EXCEPT !.domain = d] : d \in {NilString, DomainBA, DomainCBA, DomainA, DomainCBdotA}}
    \cup {[spec EXCEPT !.version = v] : v \in {<<1, 17, 2>>, <<1, 16, 0>>}}

\* a client creates the shoot garden-dev/foo (or a shoot under another key)
AdmitCreate ==
    /\ vLast = NoRequest
    /\ vOld = Absent
    /\ \E object \in CreateCandidates :
         vLast' = Recorded("CREATE", object, Absent,
                           Admit("CREATE", object, EmptyShoot, CloudProfileLister, SeedLister,
                                 ProjectLister(vProjectDeleting), ShootLister))
    /\ UNCHANGED <<now, beVars, seedVars, vOld, vOthers, vProjectDeleting, extVars>>

\* a client updates the stored shoot: metadata and spec of the request differ
\* from the stored object, the status is the stored one
AdmitUpdate ==
    /\ vLast = NoRequest
    /\ vOld # Absent
    /\ \E a \in AnnotationMaps, f \in SUBSET {GardenerName}, spec \in SpecEdits(vOld.spec) :
         LET object == [vOld EXCEPT !.annotations = a, !.finalizers = f, !.spec = spec] IN
         vLast' = Recorded("UPDATE", object, vOld,
                           Admit("UPDATE", object, vOld, CloudProfileLister, SeedLister,
                                 ProjectLister(vProjectDeleting), ShootLister))
    /\ UNCHANGED <<now, beVars, seedVars, vOld, vOthers, vProjectDeleting, extVars>>

\* ---- requests that exercise the cloud profile constraints

WorkerMachineTypes == {"m1", "m2", "m3"}
WorkerImages == {[name |-> "img", version |-> 1], [name |-> "img", version |-> 2], NoImage}
WorkerVolumeTypes == {"<nil>", "v1", "v2", "v3"}
WorkerZones == {<<"z1">>, <<"z2">>, <<"z9">>}

Workers(names) ==
    {Worker(n, mt, img, vt, z) :
        n \in names, mt \in WorkerMachineTypes, img \in WorkerImages,
        vt \in WorkerVolumeTypes, z \in WorkerZones}

\* a second worker pool, valid under the cloud profile
ValidWorker == Worker("w0", "m1", [name |-> "img", version |-> 2], "v1", <<"z2">>)

\* stored shoots with one worker pool w1; they were admitted when the cloud
\* profile still offered their values (version 1.16.0 has expired since)
ProviderShoots ==
    {[namespace |-> ProjectNamespace, name |-> ShootName, annotations |-> NilAnnotations,
      finalizers |-> {GardenerName}, deletionTimestamp |-> d,
      spec |-> [ValidSpec(HealthySeed, NilString, FALSE) EXCEPT
                   !.version = <<1, 16, 0>>, !.workers = <<w>>],
      status |-> EmptyStatus] :
        d \in BOOLEAN, w \in Workers({"w1"})}

\* the worker lists of a request: the pool alone, under its name or renamed,
\* or behind a new pool
WorkerLists == {<<w>> : w \in Workers({"w1", "w2"})} \cup {<<ValidWorker, w>> : w \in Workers({"w1"})}

ProviderVersions == {<<1, 16, 0>>, <<1, 17, 1>>, <<1, 18, 0>>, <<1, 17>>}
ProviderRegions == {"r1", "r2"}

ProviderInit ==
    /\ vOld \in {Absent} \cup ProviderShoots
    /\ vOthers = <<>>
    /\ vProjectDeleting = FALSE
    /\ vLast = NoRequest

\* a client creates a shoot with one worker pool
ProviderAdmitCreate ==
    /\ vLast = NoRequest
    /\ vOld = Absent
    /\ \E w \in Workers({"w1"}), v \in ProviderVersions, r \in ProviderRegions :
         LET object == [namespace |-> ProjectNamespace, name |-> ShootName,
                        annotations |-> NilAnnotations, finalizers |-> {},
                        deletionTimestamp |-> FALSE,
                        spec |-> [ValidSpec(HealthySeed, NilString, FALSE) EXCEPT
                                     !.version = v, !.region = r, !.workers = <<w>>],
                        status |-> EmptyStatus]
         IN  vLast' = Recorded("CREATE", object, Absent,
                               Admit("CREATE", object, EmptyShoot, CloudProfileLister,
                                     SeedLister, ProjectLister(vProjectDeleting), ShootLister))
    /\ UNCHANGED <<now, beVars, seedVars, vOld, vOthers, vProjectDeleting, extVars>>

\* a client updates version, region and worker pools of the stored shoot
ProviderAdmitUpdate ==
    /\ vLast = NoRequest
    /\ vOld # Absent
    /\ \E ws \in WorkerLists, v \in ProviderVersions, r \in ProviderRegions :
         LET object == [vOld EXCEPT !.spec.version = v, !.spec.region = r, !.spec.workers = ws]
         IN  vLast' = Recorded("UPDATE", object, vOld,
                               Admit("UPDATE", object, vOld, CloudProfileLister, SeedLister,
                                     ProjectLister(vProjectDeleting), ShootLister))
    /\ UNCHANGED <<now, beVars, seedVars, vOld, vOthers, vProjectDeleting, extVars>>

\* ---------------------------------------------------------------- ShootDNS admission plugin
\* The plugin reads of a Shoot: its namespace, its name, spec.seedName and
\* spec.dns, which is nil or [domain, providers]; a provider is [type, primary],
\* both pointers: type is NilString or a one-element tuple, primary is "nil",
\* "true" or "false". Domains are tuples of characters.

NilDNS == [kind |-> "NilDNS"]

DNSUnmanaged == <<"unmanaged">>

SeedTaintDisableDNS == "seed.gardener.cloud/disable-dns"

DNSProvider(type, primary) == [type |-> type, primary |-> primary]

InternalError == "InternalError"

\* an error that is not an API status error (fmt.Errorf)
PlainError == "Error"

ShootUsesUnmanagedDNS(shoot) ==
    /\ shoot.dns # NilDNS
    /\ Len(shoot.dns.providers) > 0
    /\ shoot.dns.providers[1].type # NilString
    /\ shoot.dns.providers[1].type = DNSUnmanaged

\* the index of the first provider whose primary flag is true, 0 for nil
FindPrimaryDNSProvider(providers) ==
    LET primaries == {i \in 1..Len(providers) : providers[i].primary = "true"}
    IN  IF primaries = {} THEN 0
        ELSE CHOOSE i \in primaries : \A j \in primaries : i <= j

\* fmt.Sprintf("%s.%s.%s", shoot.Name, project.Name, domain)
GeneratedDomain(name, projectName, domain) ==
    name \o <<".">> \o projectName \o <<".">> \o domain

\* "." + domain is a suffix of shootDomain
UnderDomain(shootDomain, domain) == HasSuffix(shootDomain, <<".">> \o domain)

\* seedLister.Get and the check of the disable-dns taint: "error", TRUE or FALSE
seedDisablesDNS(seeds, seedName) ==
    IF seeds[seedName] = Absent THEN "error"
    ELSE IF TaintsHave(seeds[seedName].taints, SeedTaintDisableDNS) THEN "true"
    ELSE "false"

\* the first default domain, in list order, that the loop acts on; 0 when the
\* loop ends without acting
FirstActingDomain(shootDomain, defaultDomains) ==
    LET acting == {i \in 1..Len(defaultDomains) :
                      \/ shootDomain = NilString
                      \/ UnderDomain(shootDomain, defaultDomains[i])}
    IN  IF acting = {} THEN 0
        ELSE CHOOSE i \in acting : \A j \in acting : i <= j

\* mutation: the domain under a default domain is not compared with the generated one
assignDefaultDomainUnchecked(shoot, projects, defaultDomains) ==
    LET project == projects[shoot.namespace]
        shootDomain == IF shoot.dns # NilDNS THEN shoot.dns.domain ELSE NilString
        i == FirstActingDomain(shootDomain, defaultDomains)
        generated == GeneratedDomain(shoot.name, project.name, defaultDomains[i])
    IN  IF project = Absent THEN [err |-> InternalError, obj |-> shoot]
        ELSE IF i = 0 \/ shootDomain # NilString THEN [err |-> AdmitNil, obj |-> shoot]
        ELSE [err |-> AdmitNil,
              obj |-> [shoot EXCEPT !.dns =
                          IF shoot.dns = NilDNS
                          THEN [domain |-> generated, providers |-> <<>>]
                          ELSE [shoot.dns EXCEPT !.domain = generated]]]

\* checks that the domain of a shoot under a default domain is the generated
\* one, and generates the domain of a shoot that has none: [err, obj]
assignDefaultDomainIfNeeded(shoot, projects, defaultDomains) ==
    LET project == projects[shoot.namespace]
        shootDomain == IF shoot.dns # NilDNS THEN shoot.dns.domain ELSE NilString
        i == FirstActingDomain(shootDomain, defaultDomains)
        generated == GeneratedDomain(shoot.name, project.name, defaultDomains[i])
    IN  IF project = Absent THEN [err |-> InternalError, obj |-> shoot]
        ELSE IF i = 0 THEN [err |-> AdmitNil, obj |-> shoot]
        ELSE IF shootDomain # NilString
        THEN IF shootDomain # generated
             THEN [err |-> BadRequest, obj |-> shoot]
             ELSE [err |-> AdmitNil, obj |-> shoot]
        ELSE [err |-> AdmitNil,
              obj |-> [shoot EXCEPT !.dns =
                          IF shoot.dns = NilDNS
                          THEN [domain |-> generated, providers |-> <<>>]
                          ELSE [shoot.dns EXCEPT !.domain = generated]]]

\* mutation: the primary provider of a shoot under a default domain is tolerated
managePrimaryDNSProviderTolerant(dns, defaultDomains) ==
    LET usesDefaultDomain ==
            \E i \in 1..Len(defaultDomains) : UnderDomain(dns.domain, defaultDomains[i])
        primary == FindPrimaryDNSProvider(dns.providers)
    IN  IF usesDefaultDomain THEN [err |-> AdmitNil, dns |-> dns]
        ELSE IF primary = 0 /\ Len(dns.providers) > 0
        THEN [err |-> AdmitNil,
              dns |-> [dns EXCEPT !.providers[1].primary = "true"]]
        ELSE [err |-> AdmitNil, dns |-> dns]

\* [err, dns]
managePrimaryDNSProvider(dns, defaultDomains) ==
    LET usesDefaultDomain ==
            \E i \in 1..Len(defaultDomains) : UnderDomain(dns.domain, defaultDomains[i])
        primary == FindPrimaryDNSProvider(dns.providers)
    IN  IF usesDefaultDomain
        THEN IF primary # 0 THEN [err |-> BadRequest, dns |-> dns]
             ELSE [err |-> AdmitNil, dns |-> dns]
        ELSE IF primary = 0 /\ Len(dns.providers) > 0
        THEN [err |-> AdmitNil,
              dns |-> [dns EXCEPT !.providers[1].primary = "true"]]
        ELSE [err |-> AdmitNil, dns |-> dns]

DNSAdmission(err, reason, obj) == [err |-> err, reason |-> reason, obj |-> obj]

\* mutation: a shoot without DNS section on a seed that disables DNS is refused too
disabledDNSAlwaysRefused(shoot) ==
    DNSAdmission(BadRequest, "dnsOnDisabledSeed", shoot)

\* the answer for a shoot on a seed that disables DNS
disabledDNS(shoot) ==
    IF shoot.dns # NilDNS THEN DNSAdmission(BadRequest, "dnsOnDisabledSeed", shoot)
    ELSE DNSAdmission(AdmitNil, "dnsDisabled", shoot)

\* DNS.Admit for a request on a Shoot, with the caches synced:
\* [err, reason, obj], obj the Shoot as the plugin leaves it
DNSAdmit(shoot, seeds, projects, defaultDomains, secretsFail) ==
    LET dnsDisabled == seedDisablesDNS(seeds, shoot.seedName)
        assigned == assignDefaultDomainIfNeeded(shoot, projects, defaultDomains)
        managed == managePrimaryDNSProvider(assigned.obj.dns, defaultDomains)
    IN  IF shoot.seedName = NilString THEN DNSAdmission(AdmitNil, "noSeed", shoot)
        ELSE IF dnsDisabled = "error" THEN DNSAdmission(BadRequest, "seedNotFound", shoot)
        ELSE IF dnsDisabled = "true" THEN disabledDNS(shoot)
        ELSE IF ShootUsesUnmanagedDNS(shoot) THEN DNSAdmission(AdmitNil, "unmanaged", shoot)
        ELSE IF secretsFail THEN DNSAdmission(PlainError, "defaultDomains", shoot)
        ELSE IF assigned.err # AdmitNil
        THEN DNSAdmission(assigned.err, "assignDefaultDomain", assigned.obj)
        ELSE IF assigned.obj.dns = NilDNS \/ assigned.obj.dns.domain = NilString
        THEN DNSAdmission(BadRequest, "noDomain", assigned.obj)
        ELSE IF managed.err # AdmitNil
        THEN DNSAdmission(managed.err, "primaryProvider", assigned.obj)
        ELSE DNSAdmission(AdmitNil, "admitted", [assigned.obj EXCEPT !.dns = managed.dns])

\* ---- the world of the ShootDNS plugin

DNSDisabledSeed == <<"seed-5">>

DNSSeedLister ==
    [n \in {HealthySeed, MissingSeed, DNSDisabledSeed} |->
        IF n = MissingSeed THEN Absent
        ELSE [deleting |-> FALSE,
              taints |-> IF n = DNSDisabledSeed THEN {SeedTaintDisableDNS} ELSE {},
              shootDefaults |-> TRUE]]

ProjectName == <<"d", "e", "v">>

\* the default domains of the garden: none, one, two unrelated ones, and two
\* of which one lies under the other, in both orders
DefaultDomainLists ==
    {<<>>, <<DomainA>>, <<DomainA, <<"o">>>>, <<DomainA, DomainBA>>, <<DomainBA, DomainA>>}

\* domains a shoot can ask for: the generated ones, the one of another shoot,
\* one outside every default domain, one that ends with a default domain
\* without the dot
ShootDomains ==
    {NilString,
     GeneratedDomain(ShootName, ProjectName, DomainA),
     GeneratedDomain(ShootName, ProjectName, DomainBA),
     GeneratedDomain(ShootName, ProjectName, <<"o">>),
     GeneratedDomain(OtherShootName, ProjectName, DomainA),
     <<"x", ".", "i", "o">>,
     <<"x", "a">>}

DNSProviderTypes == {NilString, <<"aws-route53">>}

DNSProviderLists ==
    {<<>>, <<DNSProvider(DNSUnmanaged, "nil")>>, <<DNSProvider(DNSUnmanaged, "true")>>}
    \cup {<<DNSProvider(t, p)>> : t \in DNSProviderTypes, p \in {"nil", "true", "false"}}
    \cup {<<DNSProvider(<<"aws-route53">>, p), DNSProvider(<<"gcp-clouddns">>, q)>> :
            p \in {"nil", "true", "false"}, q \in {"nil", "true"}}

DNSShoots ==
    {[namespace |-> ns, name |-> ShootName, seedName |-> sn, dns |-> d] :
        ns \in {ProjectNamespace, OrphanNamespace},
        sn \in {NilString, HealthySeed, MissingSeed, DNSDisabledSeed},
        d \in {NilDNS} \cup
              {[domain |-> dom, providers |-> ps] :
                  dom \in ShootDomains, ps \in DNSProviderLists}}

NoDNSRequest == [kind |-> "NoDNSRequest"]

DNSInit ==
    /\ dDefaultDomains \in DefaultDomainLists
    /\ dSecretsFail \in BOOLEAN
    /\ dLast = NoDNSRequest

\* a CREATE or UPDATE of a Shoot goes through the plugin
DNSAdmitShoot ==
    /\ dLast = NoDNSRequest
    /\ \E shoot \in DNSShoots :
        dLast' = [request |-> shoot,
                  result |-> DNSAdmit(shoot, DNSSeedLister, ProjectLister(FALSE),
                                      dDefaultDomains, dSecretsFail)]
    /\ UNCHANGED <<now, beVars, seedVars, valVars, dDefaultDomains, dSecretsFail,
                   crVars, hcVars, lateVars>>

DNSIdle ==
    /\ dDefaultDomains = <<>>
    /\ dSecretsFail = FALSE
    /\ dLast = NoDNSRequest

\* ---------------------------------------------------------------- botanist: container runtimes
\* The ContainerRuntime resources of the shoot's namespace in the seed, and
\* the botanist functions that delete stale ones and wait for them. A resource
\* is [type, deleting, state]: spec.type, a deletion timestamp is set, and the
\* state of status.lastOperation.

\* the retries retry.UntilTimeout makes at DefaultInterval before
\* shoot.ExtensionDefaultTimeout has passed
MaxPolls == 2

CRNames == {"cr-a", "cr-b"}

CRTypes == {"gvisor", "kata"}

ContainerRuntime(type, deleting, state) ==
    [type |-> type, deleting |-> deleting, state |-> state]

NoTask == [status |-> "none", polls |-> 0, seen |-> "none"]

NoOperation ==
    [op |-> "none", phase |-> "idle", listed |-> [n \in CRNames |-> Absent],
     listFailed |-> FALSE, tasks |-> [n \in CRNames |-> NoTask], deletes |-> {},
     result |-> "none", remaining |-> {}]

Present(deployed) == {n \in CRNames : deployed[n] # Absent}

\* health.CheckExtensionObject: the last operation of the resource succeeded
CheckExtensionObject(obj) == obj.state = "Succeeded"

\* retry.UntilTimeout after one attempt of the task: Ok ends the loop with
\* nil, a severe error ends it with the error, a minor error is retried after
\* the interval unless the timeout has passed
UntilTimeout(task, outcome, seen) ==
    IF outcome = "ok" THEN [status |-> "ok", polls |-> task.polls, seen |-> seen]
    ELSE IF outcome = "severe"
    THEN [status |-> "failed", polls |-> task.polls, seen |-> seen]
    ELSE IF task.polls < MaxPolls
    THEN [status |-> "running", polls |-> task.polls + 1, seen |-> seen]
    ELSE [status |-> "failed", polls |-> task.polls, seen |-> seen]

\* flow.Parallel: waits for every task, nil if none failed
Parallel(tasks) ==
    IF \E n \in CRNames : tasks[n].status = "failed" THEN "error" ELSE "nil"

\* the tasks WaitUntilContainerRuntimeResourcesDeleted starts: one for each
\* listed resource that has a deletion timestamp
deletionTasks(listed) == {n \in CRNames : listed[n] # Absent /\ listed[n].deleting}

\* one attempt of a deletion task: Get, not found is Ok, another error is
\* severe, a resource that is still there is a minor error
deletionAttempt(getErr, obj) ==
    IF getErr THEN "severe"
    ELSE IF obj = Absent THEN "ok"
    ELSE "minor"

\* client.DeleteAllOf for the ContainerRuntimes of the namespace
DeleteContainerRuntimeResources ==
    /\ crOp.op = "none"
    /\ Present(crDeployed) # {}
    /\ \E ok \in BOOLEAN :
        crDeployed' = IF ok
                      THEN [n \in CRNames |->
                              IF crDeployed[n] = Absent THEN Absent
                              ELSE [crDeployed[n] EXCEPT !.deleting = TRUE]]
                      ELSE crDeployed
    /\ UNCHANGED <<now, beVars, seedVars, valVars, dnsVars, crMap, crOp, hcVars, lateVars>>

\* the extension controller removes its finalizer from a resource that is
\* being deleted
ExtensionFinalizes ==
    /\ \E n \in CRNames :
        /\ crDeployed[n] # Absent
        /\ crDeployed[n].deleting
        /\ crDeployed' = [crDeployed EXCEPT ![n] = Absent]
    /\ UNCHANGED <<now, beVars, seedVars, valVars, dnsVars, crMap, crOp, hcVars, lateVars>>

\* the extension controller reconciles a resource successfully
ExtensionReconciles ==
    /\ \E n \in CRNames :
        /\ crDeployed[n] # Absent
        /\ ~crDeployed[n].deleting
        /\ crDeployed[n].state = "Processing"
        /\ crDeployed' = [crDeployed EXCEPT ![n].state = "Succeeded"]
    /\ UNCHANGED <<now, beVars, seedVars, valVars, dnsVars, crMap, crOp, hcVars, lateVars>>

\* WaitUntilContainerRuntimeResourcesDeleted up to the start of the tasks
WaitDeletedStart ==
    /\ crOp.op = "none"
    /\ \E listErr \in BOOLEAN :
        crOp' = IF listErr
                THEN [NoOperation EXCEPT !.op = "waitDeleted", !.phase = "done",
                                         !.result = "error", !.listFailed = TRUE,
                                         !.remaining = Present(crDeployed)]
                ELSE [NoOperation EXCEPT
                        !.op = "waitDeleted", !.phase = "running",
                        !.listed = crDeployed,
                        !.tasks = [n \in CRNames |->
                                      IF n \in deletionTasks(crDeployed)
                                      THEN [NoTask EXCEPT !.status = "running"]
                                      ELSE NoTask]]
    /\ UNCHANGED <<now, beVars, seedVars, valVars, dnsVars, crMap, crDeployed, hcVars, lateVars>>

\* one attempt of one deletion task
WaitDeletedPoll ==
    /\ crOp.op = "waitDeleted"
    /\ crOp.phase = "running"
    /\ \E n \in CRNames, getErr \in BOOLEAN :
        /\ crOp.tasks[n].status = "running"
        /\ crOp' = [crOp EXCEPT !.tasks[n] =
                       UntilTimeout(crOp.tasks[n],
                                    deletionAttempt(getErr, crDeployed[n]),
                                    IF crDeployed[n] = Absent THEN "gone" ELSE "present")]
    /\ UNCHANGED <<now, beVars, seedVars, valVars, dnsVars, crMap, crDeployed, hcVars, lateVars>>

\* the context of the running function is cancelled: every retry loop ends
\* with the context's error
ContextCancelled ==
    /\ crOp.phase = "running"
    /\ \E n \in CRNames : crOp.tasks[n].status = "running"
    /\ crOp' = [crOp EXCEPT !.tasks =
                   [n \in CRNames |->
                       IF crOp.tasks[n].status = "running"
                       THEN [crOp.tasks[n] EXCEPT !.status = "failed", !.seen = "cancelled"]
                       ELSE crOp.tasks[n]]]
    /\ UNCHANGED <<now, beVars, seedVars, valVars, dnsVars, crMap, crDeployed, hcVars, lateVars>>

\* flow.Parallel returns when every deletion task has ended
WaitDeletedReturn ==
    /\ crOp.op = "waitDeleted"
    /\ crOp.phase = "running"
    /\ \A n \in CRNames : crOp.tasks[n].status # "running"
    /\ crOp' = [crOp EXCEPT !.phase = "done", !.result = Parallel(crOp.tasks),
                            !.remaining = Present(crDeployed)]
    /\ UNCHANGED <<now, beVars, seedVars, valVars, dnsVars, crMap, crDeployed, hcVars, lateVars>>

\* the types of the container runtimes the shoot wants
wantedContainerRuntimes(map) == {map[n].type : n \in {m \in CRNames : map[m] # Absent}}

\* mutation: a deployed resource is kept when the shoot wants one of its name
staleContainerRuntimesByName(listed, map) ==
    {n \in CRNames : listed[n] # Absent /\ map[n] = Absent}

\* the listed resources DeleteStaleContainerRuntimeResources deletes
staleContainerRuntimes(listed, map) ==
    {n \in CRNames :
        listed[n] # Absent /\ listed[n].type \notin wantedContainerRuntimes(map)}

\* DeleteStaleContainerRuntimeResources up to the start of the deletes
DeleteStaleList ==
    /\ crOp.op = "none"
    /\ \E listErr \in BOOLEAN :
        crOp' = IF listErr
                THEN [NoOperation EXCEPT !.op = "deleteStale", !.phase = "done",
                                         !.result = "error", !.listFailed = TRUE,
                                         !.remaining = Present(crDeployed)]
                ELSE [NoOperation EXCEPT !.op = "deleteStale", !.phase = "running",
                                         !.listed = crDeployed]
    /\ UNCHANGED <<now, beVars, seedVars, valVars, dnsVars, crMap, crDeployed, hcVars, lateVars>>

\* the deletes, run by flow.Parallel: a delete fails, finds nothing
\* (ignored by client.IgnoreNotFound) or sets the deletion timestamp
DeleteStaleDeletes ==
    /\ crOp.op = "deleteStale"
    /\ crOp.phase = "running"
    /\ LET targets == staleContainerRuntimes(crOp.listed, crMap)
       IN  \E failing \in SUBSET targets :
            LET tasks == [n \in CRNames |->
                            IF n \notin targets THEN NoTask
                            ELSE IF n \in failing
                            THEN [status |-> "failed", polls |-> 0, seen |-> "error"]
                            ELSE IF crDeployed[n] = Absent
                            THEN [status |-> "ok", polls |-> 0, seen |-> "notFound"]
                            ELSE [status |-> "ok", polls |-> 0, seen |-> "deleted"]]
            IN  /\ crDeployed' = [n \in CRNames |->
                                    IF tasks[n].seen = "deleted"
                                    THEN [crDeployed[n] EXCEPT !.deleting = TRUE]
                                    ELSE crDeployed[n]]
                /\ crOp' = [crOp EXCEPT !.phase = "done", !.tasks = tasks,
                                        !.deletes = targets,
                                        !.result = Parallel(tasks),
                                        !.remaining = Present(crDeployed)]
    /\ UNCHANGED <<now, beVars, seedVars, valVars, dnsVars, crMap, hcVars, lateVars>>

\* mutation: a resource that is not ready yet counts as ready
readyAttemptUnchecked(getErr, obj) ==
    IF getErr \/ obj = Absent THEN "severe" ELSE "ok"

\* one attempt of a readiness task: a failed Get is severe, a failed health
\* check is a minor error
readyAttempt(getErr, obj) ==
    IF getErr \/ obj = Absent THEN "severe"
    ELSE IF ~CheckExtensionObject(obj) THEN "minor"
    ELSE "ok"

\* flow.ParallelExitOnError: the first error that a task returns is returned
\* and the context of the other tasks is cancelled; [result, tasks]
ParallelExitOnError(tasks) ==
    IF \E n \in CRNames : tasks[n].status = "failed"
    THEN [result |-> "error",
          tasks |-> [n \in CRNames |->
                        IF tasks[n].status = "running"
                        THEN [tasks[n] EXCEPT !.status = "aborted"]
                        ELSE tasks[n]]]
    ELSE [result |-> "nil", tasks |-> tasks]

\* WaitUntilContainerRuntimeResourcesReady up to the start of the tasks
WaitReadyStart ==
    /\ crOp.op = "none"
    /\ crOp' = [NoOperation EXCEPT
                  !.op = "waitReady", !.phase = "running",
                  !.tasks = [n \in CRNames |->
                                IF crMap[n] # Absent
                                THEN [NoTask EXCEPT !.status = "running"]
                                ELSE NoTask]]
    /\ UNCHANGED <<now, beVars, seedVars, valVars, dnsVars, crMap, crDeployed, hcVars, lateVars>>

\* one attempt of one readiness task
WaitReadyPoll ==
    /\ crOp.op = "waitReady"
    /\ crOp.phase = "running"
    /\ \E n \in CRNames, getErr \in BOOLEAN :
        /\ crOp.tasks[n].status = "running"
        /\ crOp' = [crOp EXCEPT !.tasks[n] =
                       UntilTimeout(crOp.tasks[n],
                                    readyAttempt(getErr, crDeployed[n]),
                                    IF getErr THEN "error"
                                    ELSE IF crDeployed[n] = Absent THEN "notFound"
                                    ELSE crDeployed[n].state)]
    /\ UNCHANGED <<now, beVars, seedVars, valVars, dnsVars, crMap, crDeployed, hcVars, lateVars>>

\* flow.ParallelExitOnError returns: at the first failed task, or when every
\* task has ended
WaitReadyReturn ==
    /\ crOp.op = "waitReady"
    /\ crOp.phase = "running"
    /\ \/ \E n \in CRNames : crOp.tasks[n].status = "failed"
       \/ \A n \in CRNames : crOp.tasks[n].status # "running"
    /\ crOp' = [crOp EXCEPT !.phase = "done",
                            !.result = ParallelExitOnError(crOp.tasks).result,
                            !.tasks = ParallelExitOnError(crOp.tasks).tasks,
                            !.remaining = Present(crDeployed)]
    /\ UNCHANGED <<now, beVars, seedVars, valVars, dnsVars, crMap, crDeployed, hcVars, lateVars>>

\* the shoot's container runtimes, and the resources deployed for an earlier
\* generation of the shoot
ContainerRuntimesMaps ==
    [CRNames -> {Absent} \cup {[type |-> t] : t \in CRTypes}]

DeployedContainerRuntimes ==
    [CRNames -> {Absent} \cup
                {ContainerRuntime(t, FALSE, st) :
                    t \in CRTypes, st \in {"Processing", "Succeeded"}}]

CRInit ==
    /\ crMap \in ContainerRuntimesMaps
    /\ crDeployed \in DeployedContainerRuntimes
    /\ crOp = NoOperation

CRIdle ==
    /\ crMap = [n \in CRNames |-> Absent]
    /\ crDeployed = [n \in CRNames |-> Absent]
    /\ crOp = NoOperation

\* ---------------------------------------------------------------- health checker

\* The checker holds one threshold per condition type; the model follows one
\* condition, of type ControlPlaneHealthy, and the threshold of that type:
\* [set, d], d in the unit of the clock.

MaxThreshold == 2

NoThreshold == [set |-> FALSE, d |-> 0]

\* mutation: a True condition fails at once even with a threshold
FailedConditionNoGrace(threshold, condition, t) ==
    IF condition.status = "Progressing" /\ threshold.set
          /\ t - condition.lastTransitionTime <= threshold.d
    THEN UpdatedCondition(condition, "Progressing", "Failed", t)
    ELSE UpdatedCondition(condition, "False", "Failed", t)

\* HealthChecker.FailedCondition at time t
FailedCondition(threshold, condition, t) ==
    IF condition.status = "True"
    THEN IF ~threshold.set
         THEN UpdatedCondition(condition, "False", "Failed", t)
         ELSE UpdatedCondition(condition, "Progressing", "Failed", t)
    ELSE IF condition.status = "Progressing"
    THEN IF ~threshold.set
         THEN UpdatedCondition(condition, "False", "Failed", t)
         ELSE IF t - condition.lastTransitionTime <= threshold.d
         THEN UpdatedCondition(condition, "Progressing", "Failed", t)
         ELSE UpdatedCondition(condition, "False", "Failed", t)
    ELSE UpdatedCondition(condition, "False", "Failed", t)

\* the entries of the test table of FailedCondition, a minute being one unit
\* of the clock: [threshold, now, status, expected]
FailedConditionEntries ==
    {[threshold |-> [set |-> TRUE, d |-> 1], now |-> 0, status |-> "True",
      expected |-> "Progressing"],
     [threshold |-> NoThreshold, now |-> 0, status |-> "True",
      expected |-> "False"],
     [threshold |-> [set |-> TRUE, d |-> 1], now |-> 0, status |-> "Progressing",
      expected |-> "Progressing"],
     [threshold |-> [set |-> TRUE, d |-> 1], now |-> 2, status |-> "Progressing",
      expected |-> "False"],
     [threshold |-> NoThreshold, now |-> 0, status |-> "False",
      expected |-> "False"]}

HCInit ==
    /\ hcThreshold \in {NoThreshold} \cup {[set |-> TRUE, d |-> d] : d \in 0..MaxThreshold}
    /\ \E st \in {"True", "Progressing", "False", "Unknown"} :
        hcCond = Condition(ShootControlPlaneHealthy, st, "Initial", 0, 0)

\* a health check of the condition's components fails
HealthCheckFails ==
    /\ hcCond' = FailedCondition(hcThreshold, hcCond, now)
    /\ UNCHANGED <<now, beVars, seedVars, valVars, dnsVars, crVars, hcThreshold, lateVars>>

\* a health check of the condition's components passes
HealthCheckSucceeds ==
    /\ hcCond' = UpdatedCondition(hcCond, "True", "Succeeded", now)
    /\ UNCHANGED <<now, beVars, seedVars, valVars, dnsVars, crVars, hcThreshold, lateVars>>

HCIdle ==
    /\ hcThreshold = NoThreshold
    /\ hcCond = Condition(ShootControlPlaneHealthy, "Unknown", "Initial", 0, 0)

\* ---------------------------------------------------------------- health checker: checks
\* A check returns nil or a failed condition: [status, reason], status "nil"
\* for no condition.

\* the largest minimum and maximum of a worker pool
MaxPoolSize == 2

NoFailure == [status |-> "nil", reason |-> ""]

Failure(reason) == [status |-> "False", reason |-> reason]

NodeNames == {"node1", "node2", "node3", "node4"}

PoolNames == <<"cpu-worker-1", "cpu-worker-2">>

\* the nodes that carry the label worker.gardener.cloud/pool of the pool
NodesOfPool(nodes, pool) == {n \in NodeNames : nodes[n] # Absent /\ nodes[n].pool = pool}

\* mutation: a pool with too many nodes is not reported
CheckClusterNodesNoMaximum(workers, nodes) ==
    LET failing(i) ==
            LET list == NodesOfPool(nodes, workers[i].name)
            IN  \/ \E n \in list : ~nodes[n].ready
                \/ Cardinality(list) < workers[i].minimum
        bad == {i \in 1..Len(workers) : failing(i)}
        first == CHOOSE i \in bad : \A j \in bad : i <= j
        list == NodesOfPool(nodes, workers[first].name)
    IN  IF bad = {} THEN NoFailure
        ELSE IF \E n \in list : ~nodes[n].ready THEN Failure("NodeUnhealthy")
        ELSE Failure("MissingNodes")

\* HealthChecker.CheckClusterNodes: pool by pool, in the order of the worker
\* list, the nodes of the pool are checked, then their number
RECURSIVE CheckClusterNodes(_, _)
CheckClusterNodes(workers, nodes) ==
    IF workers = <<>> THEN NoFailure
    ELSE LET worker == Head(workers)
             list == NodesOfPool(nodes, worker.name)
         IN  IF \E n \in list : ~nodes[n].ready THEN Failure("NodeUnhealthy")
             ELSE IF Cardinality(list) < worker.minimum THEN Failure("MissingNodes")
             ELSE IF Cardinality(list) > worker.maximum THEN Failure("TooManyNodes")
             ELSE CheckClusterNodes(Tail(workers), nodes)

Node(pool, ready) == [pool |-> pool, ready |-> ready]

\* the entries of the test table of CheckClusterNodes, with the maximum of 10
\* of the first pool as MaxPoolSize and three nodes, not four, in the second
\* pool of the last entry: [nodes, workers, expected]
CheckClusterNodesEntries ==
    LET pool1 == [name |-> PoolNames[1], minimum |-> 1, maximum |-> MaxPoolSize]
        pool2 == [name |-> PoolNames[2], minimum |-> 1, maximum |-> 2]
        one(ready) == [n \in NodeNames |->
                          IF n = "node1" THEN Node(PoolNames[1], ready) ELSE Absent]
    IN  {[nodes |-> one(TRUE), workers |-> <<pool1>>, expected |-> NoFailure],
         [nodes |-> one(FALSE), workers |-> <<pool1>>,
          expected |-> Failure("NodeUnhealthy")],
         [nodes |-> one(TRUE), workers |-> <<pool1, pool2>>,
          expected |-> Failure("MissingNodes")],
         [nodes |-> [n \in NodeNames |->
                        IF n = "node1" THEN Node(PoolNames[1], TRUE)
                        ELSE Node(PoolNames[2], TRUE)],
          workers |-> <<pool1, pool2>>, expected |-> Failure("TooManyNodes")]}

NodeListers ==
    [NodeNames -> {Absent} \cup
                  {Node(p, r) : p \in {PoolNames[1], PoolNames[2], "other"},
                                r \in BOOLEAN}]

NoCheck == [check |-> "none", input |-> <<>>, result |-> NoFailure]

ChkInit ==
    /\ hPools \in {<<>>} \cup
                 {<<[name |-> PoolNames[1], minimum |-> lo, maximum |-> hi]>> :
                     lo \in 0..MaxPoolSize, hi \in 0..MaxPoolSize}
                 \cup
                 {<<[name |-> PoolNames[1], minimum |-> lo, maximum |-> hi],
                    [name |-> PoolNames[2], minimum |-> lo2, maximum |-> 1]>> :
                     lo \in 0..MaxPoolSize, hi \in 0..MaxPoolSize, lo2 \in 0..1}
    /\ \A i \in 1..Len(hPools) : hPools[i].minimum <= hPools[i].maximum
    /\ hWorkers \in {<<>>, <<"nil">>, <<"Succeeded">>, <<"Processing">>,
                     <<"Succeeded", "Processing">>}
    /\ hLast = NoCheck

\* the health check of the nodes of the shoot
CheckClusterNodesRun ==
    /\ hLast.check = "none"
    /\ \E nodes \in NodeListers :
        hLast' = [check |-> "nodes", input |-> nodes,
                  result |-> CheckClusterNodes(hPools, nodes)]
    /\ UNCHANGED <<oldVars, hPools, hWorkers, pjVars>>

\* ---- control plane, monitoring and logging checks
\* A lister gives for a name "missing", "healthy" or "unhealthy".

RequiredControlPlaneDeployments ==
    {"gardener-resource-manager", "kube-apiserver", "kube-controller-manager",
     "kube-scheduler"}

ClusterAutoscaler == "cluster-autoscaler"

RequiredControlPlaneStatefulSets == {"etcd-main", "etcd-events"}

RequiredMonitoringSystemComponents == {"blackbox-exporter", "node-exporter"}

RequiredLoggingControlPlane == {"kibana", "elasticsearch-logging"}

\* helper.ShootWantsClusterAutoscaler: some pool can be scaled
ShootWantsClusterAutoscaler(pools) ==
    \E i \in 1..Len(pools) : pools[i].minimum < pools[i].maximum

\* a Worker resource whose last operation is Processing: a rolling update may
\* be going on
isRollingUpdateOngoing(workers) ==
    \E i \in 1..Len(workers) : workers[i] = "Processing"

\* mutation: the autoscaler is required whenever the shoot wants it
computeRequiredControlPlaneDeploymentsAlways(pools, workers) ==
    IF ShootWantsClusterAutoscaler(pools)
    THEN RequiredControlPlaneDeployments \cup {ClusterAutoscaler}
    ELSE RequiredControlPlaneDeployments

computeRequiredControlPlaneDeployments(pools, workers) ==
    IF ShootWantsClusterAutoscaler(pools) /\ ~isRollingUpdateOngoing(workers)
    THEN RequiredControlPlaneDeployments \cup {ClusterAutoscaler}
    ELSE RequiredControlPlaneDeployments

\* the required objects are looked up one after the other
checkRequired(required, lister, kind) ==
    IF \E n \in required : lister[n] = "missing" THEN Failure(kind \o "Missing")
    ELSE IF \E n \in required : lister[n] = "unhealthy" THEN Failure(kind \o "Unhealthy")
    ELSE NoFailure

\* HealthChecker.CheckControlPlane
CheckControlPlane(pools, deployments, statefulSets, workers) ==
    LET required == computeRequiredControlPlaneDeployments(pools, workers)
        deploymentsChecked == checkRequired(required, deployments, "Deployment")
    IN  IF deploymentsChecked # NoFailure THEN deploymentsChecked
        ELSE checkRequired(RequiredControlPlaneStatefulSets, statefulSets, "StatefulSet")

\* HealthChecker.CheckMonitoringSystemComponents and CheckLoggingControlPlane:
\* nothing is looked at for a shoot with purpose testing
CheckOptionalComponents(required, isTestingShoot, lister) ==
    IF isTestingShoot THEN NoFailure
    ELSE checkRequired(required, lister, "Component")

\* the entries of the test table of CheckControlPlane:
\* [pools, deployments, statefulSets, workers, nil]
CheckControlPlaneEntries ==
    LET needsAutoscaler == <<[name |-> "foo", minimum |-> 1, maximum |-> 2]>>
        deps(missing, unhealthy) ==
            [n \in RequiredControlPlaneDeployments \cup {ClusterAutoscaler} |->
                IF n \in missing THEN "missing"
                ELSE IF n \in unhealthy THEN "unhealthy" ELSE "healthy"]
        sets(missing, unhealthy) ==
            [n \in RequiredControlPlaneStatefulSets |->
                IF n \in missing THEN "missing"
                ELSE IF n \in unhealthy THEN "unhealthy" ELSE "healthy"]
        entry(p, d, s, w, ok) ==
            [pools |-> p, deployments |-> d, statefulSets |-> s, workers |-> w,
             nil |-> ok]
    IN  {entry(<<>>, deps({}, {}), sets({}, {}), <<>>, TRUE),
         entry(<<>>, deps({ClusterAutoscaler}, {}), sets({}, {}), <<>>, TRUE),
         entry(needsAutoscaler, deps({}, {}), sets({}, {}), <<"Succeeded">>, TRUE),
         entry(<<>>, deps({"gardener-resource-manager", ClusterAutoscaler}, {}),
               sets({}, {}), <<>>, FALSE),
         entry(<<>>, deps({ClusterAutoscaler}, {"gardener-resource-manager"}),
               sets({}, {}), <<>>, FALSE),
         entry(<<>>, deps({}, {}), sets({"etcd-main"}, {}), <<>>, FALSE),
         entry(<<>>, deps({}, {}), sets({}, {"etcd-main"}), <<>>, FALSE),
         entry(needsAutoscaler, deps({ClusterAutoscaler}, {}), sets({}, {}),
               <<"Processing">>, TRUE)}

ObjectStates == {"missing", "healthy", "unhealthy"}

\* the health check of the control plane of the shoot
CheckControlPlaneRun ==
    /\ hLast.check = "none"
    /\ \E deployments \in [RequiredControlPlaneDeployments \cup {ClusterAutoscaler}
                              -> ObjectStates],
          statefulSets \in [RequiredControlPlaneStatefulSets -> ObjectStates] :
        hLast' = [check |-> "controlPlane",
                  input |-> [deployments |-> deployments, statefulSets |-> statefulSets],
                  result |-> CheckControlPlane(hPools, deployments, statefulSets,
                                               hWorkers)]
    /\ UNCHANGED <<oldVars, hPools, hWorkers, pjVars>>

\* the health checks of the monitoring system components and of the logging
\* control plane
CheckOptionalComponentsRun ==
    /\ hLast.check = "none"
    /\ \E required \in {RequiredMonitoringSystemComponents, RequiredLoggingControlPlane},
          isTestingShoot \in BOOLEAN :
        \E lister \in [required -> ObjectStates] :
            hLast' = [check |-> "optional",
                      input |-> [required |-> required, testing |-> isTestingShoot,
                                 lister |-> lister],
                      result |-> CheckOptionalComponents(required, isTestingShoot, lister)]
    /\ UNCHANGED <<oldVars, hPools, hWorkers, pjVars>>

ChkIdle ==
    /\ hPools = <<>>
    /\ hWorkers = <<>>
    /\ hLast = NoCheck

\* ===========================================================================
\* The project controller: defaultControl.reconcile and
\* reconcileNamespaceForProject (project_control_reconcile.go)
\* ===========================================================================
MaxRuns == 2

\* common.ProjectPrefix
ProjectPrefix == "garden-"

PjName == "dev"

\* the random suffixes the API server appends to a GenerateName
Suffixes == {"x7k2p", "q9m4z"}

\* fmt.Sprintf("%s%s-", common.ProjectPrefix, project.Name), completed by the
\* API server with a suffix
GenerateName(name) == <<ProjectPrefix, name, "-">>

GeneratedName(name, suffix) == GenerateName(name) \o <<suffix>>

\* a namespace that a user named in spec.namespace
UserNamespace == <<"garden-team">>

NsNames == {GeneratedName(PjName, s) : s \in Suffixes} \cup {UserNamespace}

NoPjTask == [status |-> "none", polls |-> 0, seen |-> "none"]

\* the run of reconcile: where it is, what it created, whom it called
NoPjRun ==
    [pc |-> "idle", runs |-> 0, specNamespace |-> NilString, created |-> NilString,
     updateFailed |-> FALSE, local |-> "project", task |-> NoPjTask,
     events |-> <<>>, phases |-> <<>>, result |-> "none"]

PjEvent(isError, reason, message) ==
    [isError |-> isError, reason |-> reason, message |-> message]

\* c.updateProjectStatus(project.ObjectMeta, setProjectPhase(phase)): the phase
\* of the stored project after the call
updateProjectStatus(project, phase, ok) ==
    IF ok /\ project.exists THEN [project EXCEPT !.phase = phase] ELSE project

\* reconcileNamespaceForProject: the namespaces of the cluster after the call,
\* the namespace it returns, the one it created, and its error
\*   c.create    Create succeeds
\*   c.suffix    the suffix the API server picks for a generated name
\*   c.tryNs     the outcome of TryUpdateNamespace: "ok", "NotFound", "error"
reconcileNamespaceForProject(project, nss, c) ==
    IF project.namespace = NilString
    THEN LET name == GeneratedName(project.name, c.suffix) IN
         IF c.create /\ nss[name] = "absent"
         THEN [nss |-> [nss EXCEPT ![name] = "active"], namespace |-> name,
               created |-> name, err |-> "nil"]
         ELSE [nss |-> nss, namespace |-> NilString, created |-> NilString,
               err |-> "create error"]
    ELSE LET name == project.namespace IN
         IF nss[name] # "absent" /\ c.tryNs = "ok"
         THEN [nss |-> nss, namespace |-> name, created |-> NilString, err |-> "nil"]
         ELSE IF nss[name] # "absent" \/ c.tryNs = "error"
         THEN [nss |-> nss, namespace |-> NilString, created |-> NilString,
               err |-> "namespace error"]
         ELSE IF c.create
         THEN [nss |-> [nss EXCEPT ![name] = "active"], namespace |-> name,
               created |-> name, err |-> "nil"]
         ELSE [nss |-> nss, namespace |-> NilString, created |-> NilString,
               err |-> "create error"]

\* the part of reconcile that follows the namespace: charts, RBAC, legacy
\* cleanup, and the status update to Ready
\*   c.rest      the charts and the RBAC rules are applied
\*   c.ready     the status update to Ready succeeds
\*   c.failed    a status update to Failed succeeds
reconcileRest(project, nss, run, c) ==
    IF ~c.rest
    THEN [project |-> updateProjectStatus(project, "Failed", c.failed), nss |-> nss,
          run |-> [run EXCEPT !.pc = "returned", !.result = "chart error",
                       !.events = @ \o <<PjEvent(TRUE, "NamespaceReconcileFailed", "chart")>>,
                       !.phases = @ \o <<"Failed">>]]
    ELSE IF ~c.ready
    THEN [project |-> project, nss |-> nss,
          run |-> [run EXCEPT !.pc = "returned", !.result = "status error",
                       !.events = @ \o <<PjEvent(TRUE, "NamespaceReconcileFailed", "ready")>>,
                       !.phases = @ \o <<"Ready">>]]
    ELSE [project |-> updateProjectStatus(project, "Ready", TRUE), nss |-> nss,
          run |-> [run EXCEPT !.pc = "returned", !.result = "nil",
                       !.phases = @ \o <<"Ready">>]]

\* reconcile once the latest project has been read and has a phase
\*   c.update    TryUpdateProject succeeds
\*   c.handed    what TryUpdateProject hands back with its error: "nil" or "object"
reconcileNamespace(project, nss, run, c) ==
    LET r == reconcileNamespaceForProject(project, nss, c)
        run1 == [run EXCEPT !.created = r.created]
    IN
    IF r.err # "nil"
    THEN [project |-> updateProjectStatus(project, "Failed", c.failed), nss |-> r.nss,
          run |-> [run1 EXCEPT !.pc = "returned", !.result = r.err,
                       !.events = @ \o <<PjEvent(TRUE, "NamespaceReconcileFailed", r.err)>>,
                       !.phases = @ \o <<"Failed">>]]
    ELSE
    LET run2 == [run1 EXCEPT !.events =
                    @ \o <<PjEvent(FALSE, "NamespaceReconcileSuccessful", "namespace")>>]
    IN
    IF project.namespace # NilString
    THEN reconcileRest(project, r.nss, run2, c)
    ELSE IF c.update
    THEN reconcileRest([project EXCEPT !.namespace = r.namespace], r.nss, run2, c)
    ELSE IF c.handed = "nil"
    \* project is nil: project.ObjectMeta is a nil dereference, reconcile
    \* does not return
    THEN [project |-> project, nss |-> r.nss,
          run |-> [run2 EXCEPT !.pc = "panicked", !.updateFailed = TRUE, !.local = "nil",
                       !.events = @ \o <<PjEvent(FALSE, "NamespaceReconcileFailed", "update error")>>]]
    ELSE [project |-> updateProjectStatus(project, "Failed", c.failed), nss |-> r.nss,
          run |-> [run2 EXCEPT !.pc = "rollback", !.updateFailed = TRUE, !.local = "object",
                       !.task = [NoPjTask EXCEPT !.status = "running"],
                       !.events = @ \o <<PjEvent(FALSE, "NamespaceReconcileFailed", "update error")>>,
                       !.phases = @ \o <<"Failed">>]]

\* reconcile, up to its return or to the retry loop of the rollback
\*   c.get       the outcome of the Get of the latest project: "nil", "NotFound", "error"
\*   c.pending   the status update to Pending succeeds
reconcile(project, nss, run, c) ==
    LET run0 == [NoPjRun EXCEPT !.runs = run.runs + 1,
                                !.specNamespace = project.namespace]
    IN
    IF c.get = "NotFound" \/ (~project.exists /\ c.get = "nil")
    THEN [project |-> project, nss |-> nss,
          run |-> [run0 EXCEPT !.pc = "returned", !.result = "nil"]]
    ELSE IF c.get = "error"
    THEN [project |-> project, nss |-> nss,
          run |-> [run0 EXCEPT !.pc = "returned", !.result = "get error"]]
    ELSE IF project.phase = "" /\ ~c.pending
    THEN [project |-> project, nss |-> nss,
          run |-> [run0 EXCEPT !.pc = "returned", !.result = "status error",
                       !.phases = <<"Pending">>]]
    ELSE IF project.phase = ""
    THEN reconcileNamespace(updateProjectStatus(project, "Pending", TRUE), nss,
                            [run0 EXCEPT !.phases = <<"Pending">>], c)
    ELSE reconcileNamespace(project, nss, run0, c)

\* what one attempt of the rollback makes of the answer to Delete
rollbackAttemptNoWait(deleted) ==
    IF deleted = "NotFound" THEN "ok"
    ELSE IF deleted = "error" THEN "severe"
    ELSE "ok"

rollbackAttempt(deleted) ==
    IF deleted = "NotFound" THEN "ok"
    ELSE IF deleted = "error" THEN "severe"
    ELSE "minor"

ReconcileChoices ==
    [get : {"nil", "NotFound", "error"}, pending : BOOLEAN, create : BOOLEAN,
     suffix : Suffixes, tryNs : {"ok", "NotFound", "error"}, update : BOOLEAN,
     handed : {"nil", "object"}, failed : BOOLEAN, rest : BOOLEAN, ready : BOOLEAN]

PjInit ==
    /\ pProject \in [exists : BOOLEAN, name : {PjName},
                     namespace : {NilString, UserNamespace},
                     phase : {"", "Pending", "Failed", "Ready"}]
    /\ pNamespaces \in {[n \in NsNames |-> IF n = UserNamespace THEN s ELSE "absent"] :
                           s \in {"absent", "active"}}
    /\ pRun = NoPjRun

PjReconcile ==
    /\ pRun.pc \in {"idle", "returned"}
    /\ pRun.runs < MaxRuns
    /\ \E c \in ReconcileChoices :
        LET r == reconcile(pProject, pNamespaces, pRun, c) IN
        /\ pProject' = r.project
        /\ pNamespaces' = r.nss
        /\ pRun' = r.run
    /\ UNCHANGED <<oldVars, chkVars>>

\* one attempt of the retry loop of the rollback; when the loop ends, reconcile
\* reports its failure and returns the error of the update
PjRollbackPoll ==
    /\ pRun.pc = "rollback"
    /\ pRun.task.status = "running"
    /\ \E failure \in BOOLEAN :
        LET present == pNamespaces[pRun.created] # "absent"
            deleted == IF failure THEN "error"
                       ELSE IF present THEN "nil" ELSE "NotFound"
            task == UntilTimeout(pRun.task, rollbackAttempt(deleted),
                                 IF present THEN "present" ELSE "gone")
        IN
        /\ pNamespaces' = IF deleted = "nil"
                          THEN [pNamespaces EXCEPT ![pRun.created] = "terminating"]
                          ELSE pNamespaces
        /\ pRun' = IF task.status = "running"
                   THEN [pRun EXCEPT !.task = task]
                   ELSE [pRun EXCEPT !.task = task, !.pc = "returned",
                              !.result = "update error",
                              !.events = IF task.status = "failed"
                                         THEN @ \o <<PjEvent(TRUE, "NamespaceReconcileFailed",
                                                             "Failed to delete created namespace")>>
                                         ELSE @]
    /\ UNCHANGED <<oldVars, chkVars, pProject>>

\* the namespace controller of the cluster removes a terminating namespace
NamespaceFinalized ==
    /\ \E n \in NsNames :
        /\ pNamespaces[n] = "terminating"
        /\ pNamespaces' = [pNamespaces EXCEPT ![n] = "absent"]
    /\ UNCHANGED <<oldVars, chkVars, pProject, pRun>>

PjIdle ==
    /\ pProject = [exists |-> FALSE, name |-> PjName, namespace |-> NilString, phase |-> ""]
    /\ pNamespaces = [n \in NsNames |-> "absent"]
    /\ pRun = NoPjRun

Tick ==
    /\ now < MaxTime
    /\ now' = now + 1
    /\ UNCHANGED <<beVars, seedVars, valVars, extVars>>

\* the parts that a specification does not exercise
BEIdle ==
    /\ be = Absent
    /\ beGraceHours = 0
    /\ beRoute = "none"
    /\ beCalls = <<>>
    /\ beResult = EmptyResult

SeedIdle ==
    /\ seed = [exists |-> FALSE, conditions |-> <<>>]
    /\ shoots = <<>>
    /\ seedRun = NotRunYet

ValIdle ==
    /\ vOld = Absent
    /\ vOthers = <<>>
    /\ vProjectDeleting = FALSE
    /\ vLast = NoRequest

Init ==
    /\ now = 0
    /\ BEInit
    /\ SeedIdle
    /\ ValIdle
    /\ DNSIdle
    /\ CRIdle
    /\ HCIdle
    /\ ChkIdle
    /\ PjIdle

BENext == BEReconcile \/ BEUserDelete \/ BEAnnotate \/ Tick

SpecBackupEntry == Init /\ [][BENext]_vars

InitSeed ==
    /\ now = 0
    /\ BEIdle
    /\ SeedInit
    /\ ValIdle
    /\ DNSIdle
    /\ CRIdle
    /\ HCIdle
    /\ ChkIdle
    /\ PjIdle

SeedNext == SeedReconcileKey \/ GardenletHeartbeat \/ SeedDeleted \/ Tick

SpecSeed == InitSeed /\ [][SeedNext]_vars

InitValidator ==
    /\ now = 0
    /\ BEIdle
    /\ SeedIdle
    /\ ValInit
    /\ DNSIdle
    /\ CRIdle
    /\ HCIdle
    /\ ChkIdle
    /\ PjIdle

ValNext == AdmitCreate \/ AdmitUpdate

SpecValidator == InitValidator /\ [][ValNext]_vars

InitProvider ==
    /\ now = 0
    /\ BEIdle
    /\ SeedIdle
    /\ ProviderInit
    /\ DNSIdle
    /\ CRIdle
    /\ HCIdle
    /\ ChkIdle
    /\ PjIdle

ProviderNext == ProviderAdmitCreate \/ ProviderAdmitUpdate

SpecProvider == InitProvider /\ [][ProviderNext]_vars

InitDNS ==
    /\ now = 0
    /\ BEIdle
    /\ SeedIdle
    /\ ValIdle
    /\ DNSInit
    /\ CRIdle
    /\ HCIdle
    /\ ChkIdle
    /\ PjIdle

DNSNext == DNSAdmitShoot

SpecDNS == InitDNS /\ [][DNSNext]_vars

InitBotanist ==
    /\ now = 0
    /\ BEIdle
    /\ SeedIdle
    /\ ValIdle
    /\ DNSIdle
    /\ CRInit
    /\ HCIdle
    /\ ChkIdle
    /\ PjIdle

BotanistNext ==
    \/ DeleteContainerRuntimeResources
    \/ ExtensionFinalizes
    \/ ExtensionReconciles
    \/ WaitDeletedStart
    \/ WaitDeletedPoll
    \/ WaitDeletedReturn
    \/ ContextCancelled
    \/ DeleteStaleList
    \/ DeleteStaleDeletes
    \/ WaitReadyStart
    \/ WaitReadyPoll
    \/ WaitReadyReturn

SpecBotanist == InitBotanist /\ [][BotanistNext]_vars

InitHealth ==
    /\ now = 0
    /\ BEIdle
    /\ SeedIdle
    /\ ValIdle
    /\ DNSIdle
    /\ CRIdle
    /\ HCInit
    /\ ChkIdle
    /\ PjIdle

HealthNext == HealthCheckFails \/ HealthCheckSucceeds \/ Tick

SpecHealth == InitHealth /\ [][HealthNext]_vars

InitChecks ==
    /\ now = 0
    /\ BEIdle
    /\ SeedIdle
    /\ ValIdle
    /\ DNSIdle
    /\ CRIdle
    /\ HCIdle
    /\ ChkInit
    /\ PjIdle

ChecksNext == CheckClusterNodesRun \/ CheckControlPlaneRun \/ CheckOptionalComponentsRun

SpecChecks == InitChecks /\ [][ChecksNext]_vars

InitProject ==
    /\ now = 0
    /\ BEIdle
    /\ SeedIdle
    /\ ValIdle
    /\ DNSIdle
    /\ CRIdle
    /\ HCIdle
    /\ ChkIdle
    /\ PjInit

ProjectNext == PjReconcile \/ PjRollbackPoll \/ NamespaceFinalized

SpecProject == InitProject /\ [][ProjectNext]_vars

\* ===========================================================================
\* Properties of the BackupEntry reconciler
\* ===========================================================================

\* the BackupEntry as fetched has a deletion timestamp and the gardener finalizer,
\* and this step is a Reconcile that went through deleteBackupEntry
C1_Case ==
    /\ be # Absent
    /\ be.deletionTimestamp # NoTime
    /\ GardenerName \in be.finalizers
    /\ BEReconcile
    /\ beRoute' = "delete"

\* the force-deletion annotation parses to true, or more than
\* deletionGracePeriodHours have elapsed since the deletion timestamp
C1_Due ==
    \/ be.forceDeletion \in {"1", "t", "T", "TRUE", "true", "True"}
    \/ now - be.deletionTimestamp > beGraceHours

C1_DeleteOnlyWhenDue == "ActuatorDelete" \in Range(beCalls') => C1_Due

C1_PendingWritten ==
    /\ be' # Absent
    /\ be'.lastOperation = [state |-> "Pending", progress |-> 1]
    /\ be'.observedGeneration = be.generation
    /\ be'.finalizers = be.finalizers
    /\ beCalls' = <<"StatusPending">>
    /\ beResult' = [requeue |-> FALSE, err |-> "nil"]

\* C1 as stated: Delete is called only when the deletion is due; otherwise the
\* status becomes Pending/1 with observedGeneration = generation, the finalizer
\* stays, and Reconcile returns an empty Result and no error.
C1_AsStated ==
    [][C1_Case => (C1_DeleteOnlyWhenDue /\ (~C1_Due => C1_PendingWritten))]_vars

\* C1 (amended): Delete is called only when the deletion is due; otherwise
\* Delete is not called, the finalizer stays, and the only call is the status
\* update to Pending/1 (observedGeneration = generation): when that update
\* succeeds Reconcile returns an empty Result and no error, when it fails the
\* object is unchanged and Reconcile returns an empty Result with that error.
C1_PendingOrUpdateError ==
    [][C1_Case =>
        /\ C1_DeleteOnlyWhenDue
        /\ ~C1_Due =>
            /\ "ActuatorDelete" \notin Range(beCalls')
            /\ beCalls' = <<"StatusPending">>
            /\ beResult'.requeue = FALSE
            /\ \/ C1_PendingWritten
               \/ be' = be /\ beResult'.err = "statusPending"]_vars

\* a deletion that is not due yet has been recorded as Pending
C1_Witness ==
    /\ beRoute = "delete"
    /\ beCalls = <<"StatusPending">>
    /\ beResult = [requeue |-> FALSE, err |-> "nil"]
    /\ be # Absent
    /\ be.lastOperation = [state |-> "Pending", progress |-> 1]
    /\ be.observedGeneration = be.generation
    /\ GardenerName \in be.finalizers
    /\ now - be.deletionTimestamp <= beGraceHours

\* C6: Reconcile routes on the deletion timestamp.  With a deletion timestamp
\* the finalizer is never added and the actuator's Reconcile is never called;
\* without one the actuator's Delete is never called and the finalizer is never
\* removed; for an object that no longer exists Reconcile returns an empty
\* Result, no error, and writes nothing.
C6_RoutesOnDeletionTimestamp ==
    [][BEReconcile =>
        /\ (be # Absent /\ be.deletionTimestamp # NoTime) =>
              /\ beRoute' \in {"delete", "none"}
              /\ "EnsureFinalizer" \notin Range(beCalls')
              /\ "ActuatorReconcile" \notin Range(beCalls')
              /\ be' # Absent => be'.finalizers \subseteq be.finalizers
        /\ (be # Absent /\ be.deletionTimestamp = NoTime) =>
              /\ beRoute' \in {"reconcile", "none"}
              /\ "ActuatorDelete" \notin Range(beCalls')
              /\ "RemoveFinalizer" \notin Range(beCalls')
              /\ be' # Absent /\ be.finalizers \subseteq be'.finalizers
        /\ be = Absent =>
              /\ beResult' = [requeue |-> FALSE, err |-> "nil"]
              /\ beCalls' = <<>>
              /\ be' = Absent]_vars

\* a BackupEntry with a deletion timestamp went through deleteBackupEntry, which
\* called the actuator's Delete and removed the finalizer
C6_Witness ==
    /\ beRoute = "delete"
    /\ beCalls = <<"StatusProcessing", "GetSeedClient", "ActuatorDelete", "StatusSucceeded",
                   "RemoveFinalizer">>
    /\ beResult = [requeue |-> FALSE, err |-> "nil"]
    /\ be # Absent
    /\ be.deletionTimestamp # NoTime
    /\ be.finalizers = {OtherFinalizer}

\* ===========================================================================
\* Properties of the Seed lifecycle controller
\* ===========================================================================

\* this step is a reconcileSeedKey that reached control.Reconcile
SeedReconcileStep == SeedReconcileKey /\ seedRun'.called

StatusOf(conditions, type) ==
    LET i == GetConditionIndex(conditions, type)
    IN  IF i = 0 THEN "<absent>" ELSE conditions[i].status

WritesTo(writes, name) == Cardinality({k \in DOMAIN writes : writes[k].shoot = name})

\* the GardenletReady condition has been Unknown for longer than shootMonitorPeriod
C2_UnknownForShootMonitorPeriod ==
    LET i == GetConditionIndex(seed.conditions, SeedGardenletReady) IN
    /\ i # 0
    /\ seed.conditions[i].status = "Unknown"
    /\ seed.conditions[i].lastTransitionTime < now - ShootMonitorPeriod

\* C2: when GardenletReady has been Unknown for shootMonitorPeriod, a Reconcile
\* in which no call fails issues, for every shoot of the lister whose seedName is
\* the seed's name, one status update for that shoot, which sets its four
\* conditions and the HibernationPossible constraint to Unknown.
C2_EveryShootOfTheSeedMarkedUnknown ==
    [][(SeedReconcileStep /\ C2_UnknownForShootMonitorPeriod /\ seedRun'.err = "nil") =>
        \A i \in DOMAIN shoots :
            shoots[i].seedName = SeedName =>
                /\ WritesTo(seedRun'.shootWrites, shoots[i].name) = 1
                /\ \A ct \in ShootConditionTypes : StatusOf(shoots'[i].conditions, ct) = "Unknown"
                /\ StatusOf(shoots'[i].constraints, ShootHibernationPossible) = "Unknown"]_vars

\* the first stage applies: GardenletReady is absent, Unknown, or its last
\* update is older than monitorPeriod
C3_HeartbeatMissing ==
    LET i == GetConditionIndex(seed.conditions, SeedGardenletReady) IN
    \/ i = 0
    \/ seed.conditions[i].status = "Unknown"
    \/ seed.conditions[i].lastUpdateTime < now - MonitorPeriod

C3_SeedConditionWritten ==
    /\ seedRun'.seedWrite \in {"ok", "failed"}
    /\ seedRun'.seedWrite = "ok" =>
          LET i == GetConditionIndex(seed'.conditions, SeedGardenletReady) IN
          /\ i # 0
          /\ seed'.conditions[i].status = "Unknown"
          /\ seed'.conditions[i].reason = "SeedStatusUnknown"

\* the transition time of the GardenletReady condition after this step is older
\* than shootMonitorPeriod
C3_TransitionOld ==
    LET i == GetConditionIndex(seed'.conditions, SeedGardenletReady) IN
    i # 0 /\ seed'.conditions[i].lastTransitionTime < now - ShootMonitorPeriod

C3_SecondStage ==
    /\ seedRun'.shootWrites # <<>> => (seedRun'.seedWrite = "ok" /\ C3_TransitionOld)
    /\ (seedRun'.seedWrite = "ok" /\ ~C3_TransitionOld) =>
          /\ seedRun'.fastRequeue
          /\ seedRun'.err = "nil"
          /\ seedRun'.shootWrites = <<>>
          /\ shoots' = shoots

\* C3 as stated: whenever GardenletReady is absent, Unknown or stale, Reconcile
\* writes GardenletReady=Unknown (SeedStatusUnknown); shoots are written only
\* after that write succeeded and when the transition time is older than
\* shootMonitorPeriod; otherwise Reconcile returns fastRequeue and writes no shoot.
C3_AsStated ==
    [][SeedReconcileStep => ((C3_HeartbeatMissing => C3_SeedConditionWritten) /\ C3_SecondStage)]_vars

\* C3 (amended): the same for a seed that has at least one condition; a seed
\* without any condition is not written although GardenletReady is absent.
C3_TwoStageEscalation ==
    [][SeedReconcileStep =>
        /\ (Len(seed.conditions) > 0 /\ C3_HeartbeatMissing) => C3_SeedConditionWritten
        /\ C3_SecondStage]_vars

\* a Reconcile wrote the seed condition and then the status of a shoot
C3_Witness ==
    /\ seedRun.called
    /\ seedRun.seedWrite = "ok"
    /\ seedRun.shootWrites # <<>>
    /\ StatusOf(seed.conditions, SeedGardenletReady) = "Unknown"

\* C4: Reconcile writes nothing and returns (fastRequeue = true, nil) when the
\* seed has no condition, or has a GardenletReady condition that is not Unknown
\* and whose lastUpdateTime is not older than now - monitorPeriod.
C4_NoWriteWhileAlive ==
    [][(SeedReconcileStep /\
         \/ Len(seed.conditions) = 0
         \/ \E i \in DOMAIN seed.conditions :
              /\ seed.conditions[i].type = SeedGardenletReady
              /\ seed.conditions[i].status # "Unknown"
              /\ seed.conditions[i].lastUpdateTime >= now - MonitorPeriod)
        =>
        /\ seedRun'.seedWrite = "none"
        /\ seedRun'.shootWrites = <<>>
        /\ seedRun'.fastRequeue
        /\ seedRun'.err = "nil"
        /\ seed' = seed
        /\ shoots' = shoots]_vars

\* a Reconcile of a seed whose gardenlet reported in time wrote nothing
C4_Witness ==
    /\ seedRun.called
    /\ seedRun.seedWrite = "none"
    /\ seedRun.fastRequeue
    /\ seedRun.err = "nil"
    /\ StatusOf(seed.conditions, SeedGardenletReady) \in {"True", "False"}
    /\ now > 0

\* C5: a reconcileSeedKey in which the Seed exists and Reconcile returns no
\* error re-adds the key exactly once, after 10 seconds when fastRequeue is true
\* and after 1 minute otherwise; when the Seed is not found the key is marked
\* Done and not re-added; when the lister or Reconcile fails, that error is
\* returned and no AddAfter is made.
C5_RequeuePerOutcome ==
    [][SeedReconcileKey =>
        /\ (seedRun'.called /\ seedRun'.err = "nil") =>
              /\ seed.exists
              /\ seedRun'.queue = <<[op |-> "AddAfter",
                                     after |-> IF seedRun'.fastRequeue THEN 10 ELSE 60]>>
              /\ seedRun'.ret = "nil"
        /\ ~seed.exists =>
              /\ seedRun'.get = "notfound"
              /\ ~seedRun'.called
              /\ seedRun'.queue = <<[op |-> "Done", after |-> 0]>>
              /\ seedRun'.ret = "nil"
        /\ seedRun'.get = "error" =>
              /\ ~seedRun'.called
              /\ seedRun'.queue = <<>>
              /\ seedRun'.ret = "lister"
        /\ (seedRun'.called /\ seedRun'.err # "nil") =>
              /\ seedRun'.queue = <<>>
              /\ seedRun'.ret = seedRun'.err]_vars

\* a Reconcile that went on to the shoots returned fastRequeue = false and the
\* key was re-added after one minute
C5_Witness ==
    /\ seedRun.called
    /\ seedRun.err = "nil"
    /\ ~seedRun.fastRequeue
    /\ seedRun.queue = <<[op |-> "AddAfter", after |-> 60]>>
    /\ seedRun.ret = "nil"

\* ---- ShootValidator claims

IsRequest(operation) == vLast.operation = operation

\* the last request removes the gardener finalizer
FinalizerRemoved ==
    /\ IsRequest("UPDATE")
    /\ GardenerName \in vLast.oldObject.finalizers
    /\ GardenerName \notin vLast.object.finalizers

DeletionSucceeded ==
    /\ vLast.object.status.lastOperation # NoOp
    /\ vLast.object.status.lastOperation.type = "Delete"
    /\ vLast.object.status.lastOperation.state = "Succeeded"
    /\ vLast.object.status.lastOperation.progress = 100

\* the shoot has been reconciled at least once: it has a technical id and a last operation
C7_Reconciled ==
    /\ Len(vLast.object.status.technicalID) > 0
    /\ vLast.object.status.lastOperation # NoOp

\* the checks that precede the finalizer check and answer BadRequest
C7_EarlierBadRequest ==
    vLast.reason \in {"providerTypeChanged", "cloudProfileNotFound", "seedNotFound"}

C7_SkippedWitness ==
    /\ FinalizerRemoved
    /\ ~C7_Reconciled
    /\ vLast.err = AdmitNil

IsSubdomain(sub, parent) == HasSuffix(sub, <<".">> \o parent)

DomainsRelated(a, b) == a = b \/ IsSubdomain(a, b) \/ IsSubdomain(b, a)

\* another Shoot object of the lister holds a domain related to the requested one
C8_DomainTaken ==
    /\ vLast.object.spec.domain # NilString
    /\ \E i \in 1..Len(vOthers) :
         /\ <<vOthers[i].namespace, vOthers[i].name>>
              # <<vLast.object.namespace, vLast.object.name>>
         /\ vOthers[i].spec.domain # NilString
         /\ DomainsRelated(vOthers[i].spec.domain, vLast.object.spec.domain)

\* C8: a CREATE whose domain equals, or is a sub- or parent domain of, the domain
\* of another Shoot of the lister (in any namespace) is rejected.
C8_TakenDomainRejected ==
    (IsRequest("CREATE") /\ C8_DomainTaken) => vLast.err # AdmitNil

\* the same for the other Shoots whose name differs from the requested one
C8_TakenDomainRejectedForOtherNames ==
    (/\ IsRequest("CREATE")
     /\ vLast.object.spec.domain # NilString
     /\ \E i \in 1..Len(vOthers) :
          /\ vOthers[i].name # vLast.object.name
          /\ vOthers[i].spec.domain # NilString
          /\ DomainsRelated(vOthers[i].spec.domain, vLast.object.spec.domain))
    => vLast.err # AdmitNil

C8_SameNameAdmitted ==
    /\ IsRequest("CREATE")
    /\ C8_DomainTaken
    /\ vLast.err = AdmitNil

\* the requested shoot references a seed with a deletion timestamp
OnDeletedSeed ==
    /\ vLast.object.spec.seedName # NilString
    /\ SeedLister[vLast.object.spec.seedName] # Absent
    /\ SeedLister[vLast.object.spec.seedName].deleting

WithoutConfirmations(a) ==
    {kv \in a.pairs : kv[1] \notin {ConfirmationDeletion, ConfirmationDeletionDeprecated}}

\* the request differs from the stored object only in its deletion confirmation
\* annotations
OnlyConfirmationChanged ==
    /\ vLast.object.spec = vLast.oldObject.spec
    /\ vLast.object.finalizers = vLast.oldObject.finalizers
    /\ vLast.object.annotations.pairs # vLast.oldObject.annotations.pairs
    /\ WithoutConfirmations(vLast.object.annotations)
         = WithoutConfirmations(vLast.oldObject.annotations)

\* C9: an UPDATE of a shoot on a seed marked for deletion that only changes a
\* deletion confirmation annotation is not rejected for its annotations.
C9_ConfirmationChangeNotRejected ==
    (IsRequest("UPDATE") /\ OnDeletedSeed /\ OnlyConfirmationChanged)
    => vLast.reason # "annotationsOnDeletedSeed"

\* an UPDATE of a shoot on a seed marked for deletion that changes another
\* annotation or the spec is rejected
C9_OtherChangesRejected ==
    (/\ IsRequest("UPDATE")
     /\ OnDeletedSeed
     /\ \/ WithoutConfirmations(vLast.object.annotations)
             # WithoutConfirmations(vLast.oldObject.annotations)
        \/ vLast.object.spec # vLast.oldObject.spec)
    => vLast.err # AdmitNil

C9_RemovalRejected ==
    /\ IsRequest("UPDATE")
    /\ OnDeletedSeed
    /\ OnlyConfirmationChanged
    /\ vLast.object.spec = vLast.oldObject.spec
    /\ vLast.object.finalizers = vLast.oldObject.finalizers
    /\ vLast.reason = "annotationsOnDeletedSeed"

C10_ProjectDeleting ==
    /\ ProjectLister(vProjectDeleting)[vLast.object.namespace] # Absent
    /\ ProjectLister(vProjectDeleting)[vLast.object.namespace].deleting

\* the checks that precede the project and seed checks and answer BadRequest
C10_EarlierBadRequest ==
    vLast.reason \in {"cloudProfileNotFound", "seedNotFound", "projectNotFound",
                      "nameTooLong", "projectNameHyphens"}

\* C10 as stated: a CREATE in a project or on a seed marked for deletion is
\* Forbidden, and the two checks never reject an UPDATE.
C10_AsStated ==
    /\ (IsRequest("CREATE") /\ (C10_ProjectDeleting \/ OnDeletedSeed)) => vLast.err = Forbidden
    /\ IsRequest("UPDATE") => vLast.reason \notin {"projectMarkedForDeletion", "seedMarkedForDeletion"}

\* C10: a CREATE in a project or on a seed marked for deletion is never
\* admitted: it is Forbidden unless a lookup, the name length or the project
\* name check has answered BadRequest before; the two checks never reject an UPDATE.
C10_NoCreateWhenMarkedForDeletion ==
    /\ (IsRequest("CREATE") /\ (C10_ProjectDeleting \/ OnDeletedSeed)) =>
          \/ vLast.err = Forbidden
          \/ vLast.err = BadRequest /\ C10_EarlierBadRequest
    /\ IsRequest("UPDATE") => vLast.reason \notin {"projectMarkedForDeletion", "seedMarkedForDeletion"}

C10_Witness ==
    /\ IsRequest("CREATE")
    /\ OnDeletedSeed
    /\ ~C10_ProjectDeleting
    /\ vLast.reason = "seedMarkedForDeletion"
    /\ vLast.err = Forbidden

C10_UpdateWitness ==
    /\ IsRequest("UPDATE")
    /\ OnDeletedSeed
    /\ C10_ProjectDeleting
    /\ vLast.err = AdmitNil
    /\ vLast.reason = "admitted"

\* the requested shoot references a seed with the protected taint
OnProtectedSeed ==
    /\ vLast.object.spec.seedName # NilString
    /\ SeedLister[vLast.object.spec.seedName] # Absent
    /\ SeedTaintProtected \in SeedLister[vLast.object.spec.seedName].taints

SeedNameChanged ==
    IsRequest("UPDATE") /\ vLast.object.spec.seedName # vLast.oldObject.spec.seedName

\* a shoot outside the garden namespace comes to reference a protected seed
C11_ComesToReferenceProtectedSeed ==
    /\ IsRequest("CREATE") \/ SeedNameChanged
    /\ vLast.object.namespace # GardenNamespace
    /\ OnProtectedSeed

\* the checks that precede the protected seed check and answer BadRequest
C11_EarlierBadRequest ==
    vLast.reason \in {"providerTypeChanged", "cloudProfileNotFound", "seedNotFound",
                      "projectNotFound", "nameTooLong", "projectNameHyphens"}

C11_NotRejectedWhenSeedKept ==
    (IsRequest("UPDATE") /\ ~SeedNameChanged) => vLast.reason # "protectedSeed"

\* C11 as stated: outside the garden namespace a CREATE on a protected seed, or
\* an UPDATE that changes spec.seedName to one, is Forbidden; an UPDATE that
\* keeps spec.seedName is not rejected by the protected seed check.
C11_AsStated ==
    /\ C11_ComesToReferenceProtectedSeed => vLast.err = Forbidden
    /\ C11_NotRejectedWhenSeedKept

\* C11: outside the garden namespace a CREATE on a protected seed, or an UPDATE
\* that changes spec.seedName to one, is never admitted: it is Forbidden unless
\* an earlier check has answered BadRequest; an UPDATE that keeps spec.seedName
\* and a request in the garden namespace are not rejected by the protected
\* seed check.
C11_OnlyGardenShootsOnProtectedSeeds ==
    /\ C11_ComesToReferenceProtectedSeed =>
          \/ vLast.err = Forbidden
          \/ vLast.err = BadRequest /\ C11_EarlierBadRequest
    /\ C11_NotRejectedWhenSeedKept
    /\ (IsRequest("CREATE") /\ vLast.object.namespace = GardenNamespace)
          => vLast.reason # "protectedSeed"

C11_Witness ==
    /\ SeedNameChanged
    /\ C11_ComesToReferenceProtectedSeed
    /\ vLast.reason = "protectedSeed"
    /\ vLast.err = Forbidden

\* a shoot of the garden namespace is created on the protected seed
C11_GardenWitness ==
    /\ IsRequest("CREATE")
    /\ vLast.object.namespace = GardenNamespace
    /\ OnProtectedSeed
    /\ vLast.err = AdmitNil

\* a shoot that stays on the protected seed is updated
C11_KeptWitness ==
    /\ IsRequest("UPDATE")
    /\ ~SeedNameChanged
    /\ OnProtectedSeed
    /\ vLast.object.spec # vLast.oldObject.spec
    /\ vLast.err = AdmitNil

\* the request switches hibernation from off to on
SwitchesHibernationOn ==
    /\ IsRequest("UPDATE")
    /\ ~vLast.oldObject.spec.hibernation
    /\ vLast.object.spec.hibernation

\* status.constraints has a HibernationPossible condition whose status is not True
C12_HibernationNotPossible ==
    vLast.object.status.hibernationPossible \notin {"<absent>", "True"}

C12_EarlierBadRequest ==
    vLast.reason \in {"providerTypeChanged", "cloudProfileNotFound", "seedNotFound",
                      "projectNotFound"}

C12_OnlyOnSwitch ==
    (IsRequest("UPDATE") /\ ~SwitchesHibernationOn) => vLast.reason # "hibernation"

C12_PossibleWitness ==
    /\ SwitchesHibernationOn
    /\ vLast.object.status.hibernationPossible = "True"
    /\ vLast.err = AdmitNil

\* ---- cloud profile constraints

HasFieldError(field, index) ==
    \E k \in DOMAIN vLast.fieldErrs :
        vLast.fieldErrs[k].field = field /\ vLast.fieldErrs[k].index = index

\* the request reached validateProvider
ProviderValidated == vLast.reason \in {"admitted", "fieldErrors"}

\* the index of the old worker pool with the name of pool i of the request, 0 if none
OldWorkerIndex(i) ==
    LET old == vLast.oldObject.spec.workers
        found == {k \in DOMAIN old : old[k].name = vLast.object.spec.workers[i].name}
    IN  IF found = {} THEN 0 ELSE CHOOSE k \in found : TRUE

\* what the cloud profile offers
VersionOffered(v) ==
    \E c \in Range(CloudProfileLister["aws"].versions) :
        /\ ~c.expired
        /\ \/ c.version = v
           \/ Len(v) = 2 /\ c.version[1] = v[1] /\ c.version[2] = v[2]

ZonesOfRegion(region) ==
    UNION {Range(r.zones) : r \in {x \in Range(ProfileRegions) : x.name = region}}

MachineTypeOffered(worker, region) ==
    /\ \E t \in Range(ProfileMachineTypes) : t.name = worker.machineType /\ t.usable # "false"
    /\ \A z \in ZonesOfRegion(region) :
         z.name \in Range(worker.zones) => worker.machineType \notin Range(z.unavailableMachineTypes)

VolumeTypeOffered(worker, region) ==
    /\ \E t \in Range(ProfileVolumeTypes) : t.name = worker.volumeType /\ t.usable # "false"
    /\ \A z \in ZonesOfRegion(region) :
         z.name \in Range(worker.zones) => worker.volumeType \notin Range(z.unavailableVolumeTypes)

MachineImageOffered(image) ==
    \E m \in Range(ProfileMachineImages) :
        /\ m.name = image.name
        /\ \E v \in Range(m.versions) : ~v.expired /\ v.version = image.version

ZonesOffered(worker, region) ==
    \A j \in DOMAIN worker.zones : \E z \in ZonesOfRegion(region) : z.name = worker.zones[j]

\* on UPDATE a value identical to the old one is not reported
C13_UnchangedNotReported ==
    IsRequest("UPDATE") =>
        /\ vLast.object.spec.version = vLast.oldObject.spec.version
              => ~HasFieldError("kubernetes.version", 0)
        /\ \A i \in DOMAIN vLast.object.spec.workers :
             LET k == OldWorkerIndex(i)
                 worker == vLast.object.spec.workers[i]
             IN  k # 0 =>
                 LET oldWorker == vLast.oldObject.spec.workers[k] IN
                 /\ worker.machineType = oldWorker.machineType => ~HasFieldError("machine.type", i)
                 /\ worker.image = oldWorker.image => ~HasFieldError("machine.image", i)
                 /\ worker.volumeType = oldWorker.volumeType => ~HasFieldError("volume.type", i)
                 /\ (vLast.object.spec.region = vLast.oldObject.spec.region
                     /\ worker.zones = oldWorker.zones) => ~HasFieldError("zones", i)

\* on CREATE every value given is validated: it is reported exactly when the
\* cloud profile does not offer it
C13_CreateValidatesAll ==
    (IsRequest("CREATE") /\ ProviderValidated) =>
        /\ HasFieldError("kubernetes.version", 0) <=> ~VersionOffered(vLast.object.spec.version)
        /\ \A i \in DOMAIN vLast.object.spec.workers :
             LET worker == vLast.object.spec.workers[i]
                 region == vLast.object.spec.region
             IN  /\ HasFieldError("machine.type", i) <=> ~MachineTypeOffered(worker, region)
                 /\ worker.image # NoImage =>
                       (HasFieldError("machine.image", i) <=> ~MachineImageOffered(worker.image))
                 /\ worker.volumeType # "<nil>" =>
                       (HasFieldError("volume.type", i) <=> ~VolumeTypeOffered(worker, region))
                 /\ HasFieldError("zones", i) <=> ~ZonesOffered(worker, region)

\* C13: on UPDATE a kubernetes version, machine type, machine image, volume type
\* or region/zones identical to the value of the old shoot (worker matched by
\* name) is never reported, whatever the cloud profile offers; on CREATE every
\* value given is validated against the cloud profile.
C13_OnlyChangedFieldsValidated ==
    C13_UnchangedNotReported /\ C13_CreateValidatesAll

\* an UPDATE keeps the expired version and the unusable machine type, moves the
\* pool behind a new one, changes the volume type, and is admitted
C13_Witness ==
    /\ IsRequest("UPDATE")
    /\ Len(vLast.object.spec.workers) = 2
    /\ vLast.object.spec.version = vLast.oldObject.spec.version
    /\ ~VersionOffered(vLast.object.spec.version)
    /\ vLast.object.spec.workers[2].machineType = vLast.oldObject.spec.workers[1].machineType
    /\ vLast.object.spec.workers[2].machineType = "m2"
    /\ vLast.object.spec.workers[2].volumeType # vLast.oldObject.spec.workers[1].volumeType
    /\ vLast.err = AdmitNil
    /\ vLast.reason = "admitted"

\* a CREATE with the unusable machine type is rejected with the field error
C13_CreateWitness ==
    /\ IsRequest("CREATE")
    /\ vLast.object.spec.workers[1].machineType = "m2"
    /\ HasFieldError("machine.type", 1)
    /\ vLast.err = Forbidden


\* ---------------------------------------------------------------- ShootDNS claims

DNSRequested == dLast # NoDNSRequest

RequestedDomain ==
    IF dLast.request.dns = NilDNS THEN NilString ELSE dLast.request.dns.domain

ResultDomain ==
    IF dLast.result.obj.dns = NilDNS THEN NilString ELSE dLast.result.obj.dns.domain

\* the request is for a shoot on a seed that exists and does not disable DNS
OnSeedWithDNS ==
    /\ dLast.request.seedName # NilString
    /\ DNSSeedLister[dLast.request.seedName] # Absent
    /\ SeedTaintDisableDNS \notin DNSSeedLister[dLast.request.seedName].taints

UsesUnmanagedProvider ==
    /\ dLast.request.dns # NilDNS
    /\ Len(dLast.request.dns.providers) > 0
    /\ dLast.request.dns.providers[1].type = DNSUnmanaged

\* the request reaches the defaulting of the domain: the default domains were
\* listed and the project of the shoot was found
ReachesDefaulting ==
    /\ DNSRequested
    /\ OnSeedWithDNS
    /\ ~UsesUnmanagedProvider
    /\ ~dSecretsFail
    /\ ProjectLister(FALSE)[dLast.request.namespace] # Absent

ExpectedDomain(d) == GeneratedDomain(dLast.request.name, ProjectName, d)

DefaultDomainsAbove ==
    {i \in 1..Len(dDefaultDomains) : UnderDomain(RequestedDomain, dDefaultDomains[i])}

C14_DomainGenerated ==
    (ReachesDefaulting /\ RequestedDomain = NilString /\ dDefaultDomains # <<>>)
        => ResultDomain = ExpectedDomain(dDefaultDomains[1])

C14_NoDomainRejected ==
    (ReachesDefaulting /\ ResultDomain = NilString) => dLast.result.err = BadRequest

\* C14 as the specification states it: a domain under any default domain is
\* admitted only if it is the generated domain for that default domain.
C14_AsStated ==
    /\ C14_DomainGenerated
    /\ C14_NoDomainRejected
    /\ (ReachesDefaulting /\ dLast.result.err = AdmitNil)
        => \A i \in DefaultDomainsAbove :
              RequestedDomain = ExpectedDomain(dDefaultDomains[i])

\* C14: for a shoot on a seed that does not disable DNS, not using the
\* unmanaged provider, whose project is found and with the default domains
\* listed: a shoot without domain gets <shoot>.<project>.<first default domain>;
\* a shoot whose domain ends with ".<default domain>" is admitted only if the
\* domain is <shoot>.<project>.<d> for the first such default domain d in list
\* order; a shoot left without domain is rejected as BadRequest.
C14_DefaultDomainAssignment ==
    /\ C14_DomainGenerated
    /\ C14_NoDomainRejected
    /\ (ReachesDefaulting /\ dLast.result.err = AdmitNil /\ DefaultDomainsAbove # {})
        => \E i \in DefaultDomainsAbove :
              /\ \A j \in DefaultDomainsAbove : i <= j
              /\ RequestedDomain = ExpectedDomain(dDefaultDomains[i])

\* a shoot with its own generated domain under the first of two nested default
\* domains is admitted
C14_Witness ==
    /\ ReachesDefaulting
    /\ dLast.result.err = AdmitNil
    /\ Cardinality(DefaultDomainsAbove) = 2
    /\ RequestedDomain = ExpectedDomain(dDefaultDomains[1])

\* a shoot without domain got the generated one
C14_GeneratedWitness ==
    /\ ReachesDefaulting
    /\ dDefaultDomains # <<>>
    /\ RequestedDomain = NilString
    /\ ResultDomain = ExpectedDomain(dDefaultDomains[1])
    /\ dLast.result.err = AdmitNil

\* a shoot asking for the default-domain name of another shoot is refused
C14_ForeignWitness ==
    /\ ReachesDefaulting
    /\ DefaultDomainsAbove # {}
    /\ dLast.result.err = BadRequest
    /\ dLast.result.reason = "assignDefaultDomain"

\* a shoot without domain and without default domains is refused
C14_NoDomainWitness ==
    /\ ReachesDefaulting
    /\ ResultDomain = NilString
    /\ dLast.result.reason = "noDomain"


AdmittedUnchanged ==
    /\ dLast.result.err = AdmitNil
    /\ dLast.result.obj = dLast.request

OnSeedDisablingDNS ==
    /\ dLast.request.seedName # NilString
    /\ DNSSeedLister[dLast.request.seedName] # Absent
    /\ SeedTaintDisableDNS \in DNSSeedLister[dLast.request.seedName].taints

\* C15: ShootDNS admission admits the Shoot unchanged when spec.seedName is
\* nil, or when the shoot uses the unmanaged provider on a seed that does not
\* disable DNS; on a seed with the disable-DNS taint a shoot with spec.dns is
\* rejected as BadRequest and a shoot without spec.dns is admitted unchanged;
\* when the seed is not found the request is rejected as BadRequest.
C15_NoOpAndDisabledDNS ==
    DNSRequested =>
        /\ dLast.request.seedName = NilString => AdmittedUnchanged
        /\ (OnSeedWithDNS /\ UsesUnmanagedProvider) => AdmittedUnchanged
        /\ (OnSeedDisablingDNS /\ dLast.request.dns # NilDNS)
              => dLast.result.err = BadRequest
        /\ (OnSeedDisablingDNS /\ dLast.request.dns = NilDNS) => AdmittedUnchanged
        /\ (dLast.request.seedName # NilString
              /\ DNSSeedLister[dLast.request.seedName] = Absent)
              => dLast.result.err = BadRequest

\* a shoot without DNS section on a seed that disables DNS, with default
\* domains in the garden, is admitted without domain
C15_Witness ==
    /\ DNSRequested
    /\ OnSeedDisablingDNS
    /\ dLast.request.dns = NilDNS
    /\ dDefaultDomains # <<>>
    /\ AdmittedUnchanged

C15_UnmanagedWitness ==
    /\ DNSRequested
    /\ OnSeedWithDNS
    /\ UsesUnmanagedProvider
    /\ RequestedDomain = NilString
    /\ AdmittedUnchanged

C15_NoSeedWitness ==
    /\ DNSRequested
    /\ dLast.request.seedName = NilString
    /\ RequestedDomain = NilString
    /\ dDefaultDomains # <<>>
    /\ AdmittedUnchanged

C15_SeedNotFoundWitness ==
    /\ DNSRequested
    /\ dLast.request.seedName = MissingSeed
    /\ dLast.result.err = BadRequest
    /\ dLast.result.reason = "seedNotFound"

C15_DisabledRejectedWitness ==
    /\ DNSRequested
    /\ OnSeedDisablingDNS
    /\ dLast.request.dns # NilDNS
    /\ dLast.result.err = BadRequest


ResultProviders ==
    IF dLast.result.obj.dns = NilDNS THEN <<>> ELSE dLast.result.obj.dns.providers

RequestedProviders ==
    IF dLast.request.dns = NilDNS THEN <<>> ELSE dLast.request.dns.providers

HasPrimary(providers) == \E i \in 1..Len(providers) : providers[i].primary = "true"

IsDefaultDomain(domain) ==
    /\ domain # NilString
    /\ \E i \in 1..Len(dDefaultDomains) : UnderDomain(domain, dDefaultDomains[i])

\* the request passed the defaulting of the domain and has a domain
ReachesPrimaryProvider ==
    /\ ReachesDefaulting
    /\ dLast.result.reason \in {"primaryProvider", "admitted"}

C16_FirstPrimaryFound ==
    DNSRequested =>
        LET found == FindPrimaryDNSProvider(RequestedProviders)
        IN  IF HasPrimary(RequestedProviders)
            THEN /\ found \in 1..Len(RequestedProviders)
                 /\ RequestedProviders[found].primary = "true"
                 /\ \A j \in 1..(found - 1) : RequestedProviders[j].primary # "true"
            ELSE found = 0

C16_Handling ==
    ReachesPrimaryProvider =>
        /\ (IsDefaultDomain(ResultDomain) /\ HasPrimary(RequestedProviders))
              => dLast.result.err = BadRequest
        /\ (~IsDefaultDomain(ResultDomain) /\ Len(RequestedProviders) > 0
              /\ ~HasPrimary(RequestedProviders))
              => /\ dLast.result.err = AdmitNil
                 /\ ResultProviders =
                        [RequestedProviders EXCEPT ![1].primary = "true"]

\* C16 as the specification states it: every admitted shoot with a domain
\* outside the default domains and with providers has a primary provider, and
\* every admitted shoot with a domain under a default domain has none.
C16_AsStated ==
    (DNSRequested /\ dLast.result.err = AdmitNil /\ ResultDomain # NilString) =>
        /\ (~IsDefaultDomain(ResultDomain) /\ Len(ResultProviders) > 0)
              => HasPrimary(ResultProviders)
        /\ IsDefaultDomain(ResultDomain) => ~HasPrimary(ResultProviders)

\* C16: FindPrimaryDNSProvider returns the first provider whose primary flag
\* is true, nil if none; for a shoot that reaches the primary provider handling
\* (on a seed that does not disable DNS, not using the unmanaged provider, with
\* a domain after defaulting): a domain under a default domain with a primary
\* provider is a BadRequest, a domain outside them with providers but no
\* primary one gets the first provider marked primary; so such a shoot, when
\* admitted, has a primary provider if it has providers and a domain outside
\* the default domains, and none if its domain is under a default domain.
C16_PrimaryProviderHandling ==
    /\ C16_FirstPrimaryFound
    /\ C16_Handling
    /\ (ReachesPrimaryProvider /\ dLast.result.err = AdmitNil) =>
        /\ (~IsDefaultDomain(ResultDomain) /\ Len(ResultProviders) > 0)
              => HasPrimary(ResultProviders)
        /\ IsDefaultDomain(ResultDomain) => ~HasPrimary(ResultProviders)

\* a shoot under a default domain with a primary provider is refused
C16_Witness ==
    /\ ReachesPrimaryProvider
    /\ IsDefaultDomain(ResultDomain)
    /\ HasPrimary(RequestedProviders)
    /\ dLast.result.err = BadRequest
    /\ dLast.result.reason = "primaryProvider"

\* the first of two providers without primary flag is marked
C16_MarkedWitness ==
    /\ ReachesPrimaryProvider
    /\ ~IsDefaultDomain(ResultDomain)
    /\ Len(RequestedProviders) = 2
    /\ ~HasPrimary(RequestedProviders)
    /\ ResultProviders[1].primary = "true"
    /\ dLast.result.err = AdmitNil

\* the second provider is the primary one and stays the only one
C16_SecondPrimaryWitness ==
    /\ ReachesPrimaryProvider
    /\ ~IsDefaultDomain(ResultDomain)
    /\ FindPrimaryDNSProvider(RequestedProviders) = 2
    /\ ResultProviders = RequestedProviders
    /\ dLast.result.err = AdmitNil


\* ---------------------------------------------------------------- botanist claims

Returned(op) == crOp.op = op /\ crOp.phase = "done"

\* C17: WaitUntilContainerRuntimeResourcesDeleted returns nil only when no
\* ContainerRuntime resource remains in the shoot's seed namespace.
C17_NilOnlyWhenNoneRemains ==
    (Returned("waitDeleted") /\ crOp.result = "nil") => crOp.remaining = {}

\* what the code does ensure: the listed resources that had a deletion
\* timestamp are gone when nil is returned
C17_NilOnlyWhenDeletingOnesGone ==
    (Returned("waitDeleted") /\ crOp.result = "nil")
        => crOp.remaining \cap deletionTasks(crOp.listed) = {}

\* nil is returned after a wait for a resource that was being deleted
C17_AwaitedWitness ==
    /\ Returned("waitDeleted")
    /\ crOp.result = "nil"
    /\ \E n \in CRNames : crOp.tasks[n].status = "ok" /\ crOp.tasks[n].polls > 0


WantedNames == {n \in CRNames : crMap[n] # Absent}

C18_NilOnlyWhenAllReady ==
    (Returned("waitReady") /\ crOp.result = "nil") =>
        \A n \in WantedNames :
            /\ crOp.tasks[n].status = "ok"
            /\ crOp.tasks[n].seen = "Succeeded"

C18_FailedGetEndsLoop ==
    crOp.op = "waitReady" =>
        \A n \in CRNames :
            crOp.tasks[n].seen \in {"error", "notFound"}
                => crOp.tasks[n].status = "failed"

C18_FailedCheckRetried ==
    crOp.op = "waitReady" =>
        \A n \in CRNames :
            crOp.tasks[n].seen = "Processing" =>
                \/ crOp.tasks[n].status \in {"running", "aborted"}
                      /\ crOp.tasks[n].polls \in 1..MaxPolls
                \/ crOp.tasks[n].status = "failed" /\ crOp.tasks[n].polls = MaxPolls

C18_ErrorAbortsOthers ==
    Returned("waitReady") =>
        /\ crOp.result = "error" <=> \E n \in CRNames : crOp.tasks[n].status = "failed"
        /\ \A n \in CRNames : crOp.tasks[n].status # "running"
        /\ crOp.result = "nil" => \A n \in CRNames : crOp.tasks[n].status # "aborted"

\* C18: WaitUntilContainerRuntimeResourcesReady returns nil only if every
\* container runtime of the ContainerRuntimesMap was fetched and found with
\* last operation Succeeded; a failed Get ends the runtime's retry loop at
\* once, a failed health check is retried until the timeout, and when one
\* wait fails the function returns an error with the other waits aborted.
C18_ReadyOnlyWhenAllSucceeded ==
    /\ C18_NilOnlyWhenAllReady
    /\ C18_FailedGetEndsLoop
    /\ C18_FailedCheckRetried
    /\ C18_ErrorAbortsOthers

\* nil after two runtimes got ready, one of them after a retry
C18_Witness ==
    /\ Returned("waitReady")
    /\ crOp.result = "nil"
    /\ WantedNames = CRNames
    /\ \E n \in CRNames : crOp.tasks[n].polls > 0

\* one runtime timed out while the wait for the other was aborted
C18_AbortWitness ==
    /\ Returned("waitReady")
    /\ crOp.result = "error"
    /\ \E n, m \in CRNames :
        /\ crOp.tasks[n].status = "failed"
        /\ crOp.tasks[n].seen = "Processing"
        /\ crOp.tasks[m].status = "aborted"

\* a failed Get ended the loop at the first attempt
C18_SevereWitness ==
    /\ Returned("waitReady")
    /\ \E n \in CRNames :
        /\ crOp.tasks[n].seen = "error"
        /\ crOp.tasks[n].status = "failed"
        /\ crOp.tasks[n].polls = 0


ListedNames == {n \in CRNames : crOp.listed[n] # Absent}

UnusedListed ==
    {n \in ListedNames :
        \A m \in CRNames : crMap[m] # Absent => crMap[m].type # crOp.listed[n].type}

\* C19: DeleteStaleContainerRuntimeResources issues a delete for a deployed
\* ContainerRuntime if and only if its spec.type is not the type of any entry
\* of the ContainerRuntimesMap; a not-found result of a delete is not an error;
\* when the List fails the error is returned and no delete is issued.
C19_DeletesExactlyUnusedTypes ==
    Returned("deleteStale") =>
        /\ \A n \in CRNames : crOp.tasks[n].status # "none" <=> n \in crOp.deletes
        /\ crOp.listFailed => (crOp.result = "error" /\ crOp.deletes = {})
        /\ ~crOp.listFailed =>
              /\ crOp.deletes = UnusedListed
              /\ crOp.result = "error" <=>
                    \E n \in crOp.deletes : crOp.tasks[n].seen = "error"
              /\ (\A n \in crOp.deletes : crOp.tasks[n].seen \in {"deleted", "notFound"})
                    => crOp.result = "nil"

\* a stale resource was deleted while one of a wanted type was kept
C19_Witness ==
    /\ Returned("deleteStale")
    /\ crOp.result = "nil"
    /\ \E n, m \in CRNames :
        /\ n \in crOp.deletes
        /\ crOp.tasks[n].seen = "deleted"
        /\ crDeployed[n].deleting
        /\ m \in ListedNames \ crOp.deletes
        /\ ~crDeployed[m].deleting

\* a delete that found nothing did not fail the function
C19_NotFoundWitness ==
    /\ Returned("deleteStale")
    /\ crOp.result = "nil"
    /\ \E n \in crOp.deletes : crOp.tasks[n].seen = "notFound"

\* the List failed while resources were deployed
C19_ListFailedWitness ==
    /\ Returned("deleteStale")
    /\ crOp.result = "error"
    /\ crOp.deletes = {}
    /\ crOp.remaining # {}
    /\ crOp.listFailed


\* ---------------------------------------------------------------- health checker claims

WithinThreshold ==
    /\ hcThreshold.set
    /\ \/ hcCond.status = "True"
       \/ hcCond.status = "Progressing"
            /\ now - hcCond.lastTransitionTime <= hcThreshold.d

C20_Transition ==
    [][HealthCheckFails =>
        /\ hcCond'.status \in {"Progressing", "False"}
        /\ hcCond'.status = "Progressing" <=> WithinThreshold]_vars

C20_AgreesWithTests ==
    \A e \in FailedConditionEntries :
        FailedCondition(e.threshold,
                        Condition(ShootControlPlaneHealthy, e.status, "", 0, 0),
                        e.now).status = e.expected

\* C20: FailedCondition yields Progressing if and only if a threshold is
\* configured for the condition's type and the status is True, or Progressing
\* with now minus lastTransitionTime at most the threshold; otherwise it
\* yields False. Hence with a threshold a True condition never becomes False
\* in one step, and a condition that keeps failing past the threshold is False.
C20_ThresholdTransition ==
    /\ C20_Transition
    /\ [][(hcThreshold.set /\ hcCond.status = "True") => hcCond'.status # "False"]_vars
    /\ [][(HealthCheckFails /\ hcCond.status = "Progressing"
             /\ now - hcCond.lastTransitionTime > hcThreshold.d)
            => hcCond'.status = "False"]_vars
    /\ [](C20_AgreesWithTests)

\* a condition with a threshold that kept failing became False after the
\* threshold had passed
C20_Witness ==
    /\ hcThreshold.set
    /\ hcThreshold.d > 0
    /\ hcCond.status = "False"
    /\ hcCond.reason = "Failed"
    /\ hcCond.lastTransitionTime > hcThreshold.d

\* a failing condition is kept Progressing within the threshold
C20_ProgressingWitness ==
    /\ hcThreshold.set
    /\ hcCond.status = "Progressing"
    /\ hcCond.reason = "Failed"
    /\ hcCond.lastUpdateTime > hcCond.lastTransitionTime


\* ---------------------------------------------------------------- claims on the checks

NodesChecked == hLast.check = "nodes"

PoolsOfShoot == {hPools[i].name : i \in 1..Len(hPools)}

ListedNodes ==
    {n \in NodeNames : hLast.input[n] # Absent /\ hLast.input[n].pool \in PoolsOfShoot}

UnreadyListed == {n \in ListedNodes : ~hLast.input[n].ready}

PoolCount(i) ==
    Cardinality({n \in NodeNames :
                    hLast.input[n] # Absent /\ hLast.input[n].pool = hPools[i].name})

PoolsBelowMinimum == {i \in 1..Len(hPools) : PoolCount(i) < hPools[i].minimum}

PoolsAboveMaximum == {i \in 1..Len(hPools) : PoolCount(i) > hPools[i].maximum}

C21_AgreesWithTests ==
    \A e \in CheckClusterNodesEntries :
        CheckClusterNodes(e.workers, e.nodes) = e.expected

C21_HealthyWitness ==
    /\ NodesChecked
    /\ Len(hPools) = 2
    /\ hLast.result = NoFailure
    /\ ListedNodes # {}
    /\ \E n \in NodeNames : hLast.input[n] # Absent /\ ~hLast.input[n].ready

C21_MissingWitness ==
    /\ NodesChecked
    /\ hLast.result = Failure("MissingNodes")

C21_UnhealthyWitness ==
    /\ NodesChecked
    /\ hLast.result = Failure("NodeUnhealthy")
    /\ PoolsBelowMinimum # {}


ControlPlaneChecked == hLast.check = "controlPlane"

AutoscalerRequired ==
    /\ \E i \in 1..Len(hPools) : hPools[i].minimum < hPools[i].maximum
    /\ \A i \in 1..Len(hWorkers) : hWorkers[i] # "Processing"

ControlPlaneHealthy ==
    /\ \A n \in RequiredControlPlaneDeployments : hLast.input.deployments[n] = "healthy"
    /\ \A n \in RequiredControlPlaneStatefulSets : hLast.input.statefulSets[n] = "healthy"
    /\ AutoscalerRequired => hLast.input.deployments[ClusterAutoscaler] = "healthy"

C22_AgreesWithTests ==
    \A e \in CheckControlPlaneEntries :
        (CheckControlPlane(e.pools, e.deployments, e.statefulSets, e.workers) = NoFailure)
            = e.nil

C22_AutoscalerWitness ==
    /\ ControlPlaneChecked
    /\ AutoscalerRequired
    /\ hLast.input.deployments[ClusterAutoscaler] = "missing"
    /\ \A n \in RequiredControlPlaneDeployments : hLast.input.deployments[n] = "healthy"
    /\ hLast.result.status = "False"

\* a testing shoot without any monitoring component passes
C22_TestingWitness ==
    /\ hLast.check = "optional"
    /\ hLast.input.testing
    /\ \A n \in hLast.input.required : hLast.input.lister[n] = "missing"
    /\ hLast.result = NoFailure

\* ===========================================================================
\* Properties of the project controller
\* ===========================================================================
ProjectReconcileReturned == pRun.pc = "returned" /\ pRun.runs > 0

CreatedByThisRun == pRun.created # NilString

CreatedStillExists == CreatedByThisRun /\ pNamespaces[pRun.created] # "absent"

RollbackFailureReported ==
    /\ pRun.task.status = "failed"
    /\ \E i \in 1..Len(pRun.events) :
        /\ pRun.events[i].isError
        /\ pRun.events[i].message = "Failed to delete created namespace"

C23_LeftBehindWitness ==
    /\ ProjectReconcileReturned
    /\ CreatedStillExists
    /\ pProject.namespace = NilString
    /\ RollbackFailureReported

\* the name of the created namespace was written into the project
C23_WrittenWitness ==
    /\ ProjectReconcileReturned
    /\ pRun.specNamespace = NilString
    /\ CreatedByThisRun
    /\ pProject.namespace = pRun.created
    /\ pRun.result = "nil"

\* the shoots of the lister whose spec.seedName is non-nil and names the seed
ShootsOfTheSeed ==
    {shoots[i].name : i \in {j \in DOMAIN shoots : /\ shoots[j].seedName # NoSeed
                                                    /\ shoots[j].seedName = SeedName}}

\* C24: every shoot status update that the parallel tasks of the seed's
\* Reconcile issue targets a shoot whose spec.seedName is non-nil and equal to
\* the name of the seed, whatever the order and content of the shoot list.
C24_OnlyShootsOfTheSeedUpdated ==
    \A k \in DOMAIN seedRun.shootWrites :
        seedRun.shootWrites[k].shoot \in ShootsOfTheSeed

====
